---------------------------- MODULE Spec2Model ----------------------------
(***************************************************************************)
(* Self-Constrained-Control: the budget ledgers and the game-theoretic     *)
(* allocator (budget_manager.py), the decision planner with its           *)
(* reinforcement policy and digest-checked persistence                    *)
(* (planner_module.py, rl/persistence.py, utils.py) and the orchestration *)
(* loop (system.py).                                                      *)
(*                                                                         *)
(* Budgets are Python floats.  They are modelled as integers counting      *)
(* 1/Scale of a budget unit; Scale is chosen so that every quotient the    *)
(* allocator forms from the modelled inputs (means over 3, 4 or 5 cycle    *)
(* usages, the factor 1.2, the 0.1 risk per violation) is an integer.      *)
(***************************************************************************)
EXTENDS Integers, Sequences, FiniteSets, TLC

VARIABLES
    \* ---- GameTheoreticBudgetManager
    global_pool,      \* BudgetManager.global_pool
    modules,          \* BudgetManager.modules: name -> AdaptiveModuleBudget
    usage_history,    \* PredictiveBudgetManager.usage_history: name -> deque(maxlen=10)
    cache,            \* GameTheoreticBudgetManager._cache: key -> strategies
    cache_t,          \* GameTheoreticBudgetManager._cache_t
    now,              \* the latest value time.time() returned, in clock ticks
    last,             \* the most recent allocator/ledger call: what it was given and returned
    prev,             \* the call before it
    ops,              \* number of calls made so far
    \* ---- PlannerModule
    pstage,           \* "new" until _load_model has run in __init__, then "ready"
    boot,             \* what _load_model found on disk at construction
    rl_enabled,       \* PlannerModule.rl_enabled
    q_table,          \* TabularPolicy.q_table
    rl_buffer,        \* PlannerModule.rl_buffer
    rl_last_td_error, \* PlannerModule.rl_last_td_error
    rl_updates,       \* PlannerModule.rl_updates
    rl_policy_version,\* PlannerModule.rl_policy_version
    rl_gate_rejections,
    rl_fallbacks,
    rl_decisions,
    trains,           \* number of train() calls made so far
    plast,            \* the most recent planner call: what it was given and returned
    \* ---- files
    model_file,       \* artifacts/models/rl_policy.npz
    sha_file,         \* artifacts/models/rl_policy.npz.sha256
    state_files,      \* artifacts/state/<name>.pkl and .sha256, by name
    saved_policy,     \* <<artifact>> last saved if the two files are as it left them
    saved_state,      \* by name: <<obj>> last saved if its files are as it left them
    io_last,          \* the most recent direct persistence call
    io_ops,           \* number of direct persistence calls and file changes so far
    \* ---- ResourceAwareSystem
    battery,          \* ResourceAwareSystem.battery, in units
    user_energy,      \* ResourceAwareSystem.user_energy, in units
    breaker,          \* ResourceAwareSystem.circuit_breaker
    call,             \* the current or most recent process_action call and what it did
    calls,            \* number of process_action calls started so far
    mode,             \* GracefulDegradation.mode
    degradation_mode, \* ResourceAwareSystem.degradation_mode
    loop,             \* the run_loop call: where it is and what it has done
    \* ---- objects exercised on their own
    twin,             \* two PlannerModule objects built one after the other over the same disk
    tbuf,             \* a TrajectoryBuffer and the transitions added since its last clear
    ulast             \* the most recent call of a function exercised on its own

allocVars == <<global_pool, modules, usage_history, cache, cache_t, now, last, prev, ops>>

\* everything but the allocator's state
plannerVars ==
    <<pstage, boot, rl_enabled, q_table, rl_buffer, rl_last_td_error, rl_updates,
      rl_policy_version, rl_gate_rejections, rl_fallbacks, rl_decisions, trains, plast>>

fileVars == <<model_file, sha_file, state_files, saved_policy, saved_state, io_last, io_ops>>

sysVars == <<battery, user_energy, breaker, call, calls>>

unitVars == <<mode, degradation_mode, loop, twin, tbuf, ulast>>

nonAllocVars == <<plannerVars, fileVars, sysVars, unitVars>>

vars == <<allocVars, nonAllocVars>>

--------------------------------------------------------------------------
(* Units *)

\* 1 budget unit = Scale model units (60 = lcm(3,4,5); 0.1 unit = 6).
Scale == 3 * 4 * 5

U(x) == x * Scale

Max(a, b) == IF a >= b THEN a ELSE b

Min(a, b) == IF a <= b THEN a ELSE b

\* Number of clock ticks in one second of time.time().
TicksPerSecond == 2

\* Bound on the number of allocator/ledger calls in one behaviour.
MaxOps == 4

\* Bound on the clock.
MaxTime == 3

--------------------------------------------------------------------------
(* Configuration: SystemConfig defaults, and the configuration of
   tests/test_system.py::test_actuator_not_called_when_budget_denied. *)

ModuleOrder == <<"decoder", "planner", "actuator">>

Names == {ModuleOrder[i] : i \in 1..Len(ModuleOrder)}

DefaultConfig ==
    [pool |-> U(1000),
     budgets |-> [decoder |-> U(200), planner |-> U(400), actuator |-> U(400)],
     slas |-> [decoder |-> 20, planner |-> 50, actuator |-> 30]]

TestConfig ==
    [pool |-> U(1),
     budgets |-> [decoder |-> U(200), planner |-> U(250), actuator |-> U(50)],
     slas |-> [decoder |-> 20, planner |-> 50, actuator |-> 30]]

Configs == {DefaultConfig, TestConfig}

\* AdaptiveModuleBudget.penalty_rate default 0.2, in thousandths.
PenaltyRateDefault == 200

\* Violation ratios are kept in thousandths.
RatioScale == 10 * 10 * 10

\* AdaptiveModuleBudget(initial_budget, sla_ms) after __post_init__
NewLedger(b, sla) ==
    [initial_budget |-> b, sla_ms |-> sla, budget_remaining |-> b, usage |-> 0,
     penalty_rate |-> PenaltyRateDefault, violation_history |-> <<>>]

--------------------------------------------------------------------------
(* AdaptiveModuleBudget *)

\* request() with the comparison made strict
LedgerRequestStrict(l, amount) ==
    IF l.budget_remaining > amount
    THEN [ok |-> TRUE,
          ledger |-> [l EXCEPT !.budget_remaining = @ - amount, !.usage = @ + amount]]
    ELSE [ok |-> FALSE, ledger |-> l]

LedgerRequestUnchecked(l, amount) ==
    [ok |-> TRUE,
     ledger |-> [l EXCEPT !.budget_remaining = @ - amount, !.usage = @ + amount]]

\* request(amount): the ledger after the call and the value returned
LedgerRequest(l, amount) ==
    IF l.budget_remaining >= amount
    THEN [ok |-> TRUE,
          ledger |-> [l EXCEPT !.budget_remaining = @ - amount, !.usage = @ + amount]]
    ELSE [ok |-> FALSE, ledger |-> l]

\* top_up(amount)
LedgerTopUp(l, amount) == [l EXCEPT !.budget_remaining = @ + amount]

\* sum of the last three violation ratios (thousandths)
SumLast3(h) == h[Len(h)] + h[Len(h) - 1] + h[Len(h) - 2]

\* penalize_cycle() without the floor at 0
PenalizeCycleNoFloor(l) ==
    IF l.budget_remaining < 0
    THEN LET overspend == 0 - l.budget_remaining
             ratio == (overspend * RatioScale) \div Max(U(1), l.initial_budget)
             charge == (l.penalty_rate * overspend) \div RatioScale
         IN [l EXCEPT !.violation_history = Append(@, ratio),
                      !.budget_remaining = l.budget_remaining - charge,
                      !.usage = 0]
    ELSE [l EXCEPT !.usage = 0]

\* penalize_cycle(): `rate` is a local; penalty_rate itself is not assigned
PenalizeCycle(l) ==
    IF l.budget_remaining < 0
    THEN LET overspend == 0 - l.budget_remaining
             ratio == (overspend * RatioScale) \div Max(U(1), l.initial_budget)
             hist == Append(l.violation_history, ratio)
             \* np.mean(hist[-3:]) > 0.5
             escalate == Len(hist) >= 3 /\ 2 * SumLast3(hist) > 3 * RatioScale
             \* rate * overspend, rate = penalty_rate or 1.5 * penalty_rate
             charge == IF escalate
                       THEN (3 * l.penalty_rate * overspend) \div (2 * RatioScale)
                       ELSE (l.penalty_rate * overspend) \div RatioScale
         IN [l EXCEPT !.violation_history = hist,
                      !.budget_remaining = Max(0, l.budget_remaining - charge),
                      !.usage = 0]
    ELSE [l EXCEPT !.usage = 0]

--------------------------------------------------------------------------
(* BudgetManager / AuctionBudgetManager / PredictiveBudgetManager *)

\* deque(maxlen=10)
HistoryMaxLen == 10

\* a history that refuses a new value once full
DequeAppendKeepOldest(h, x) == IF Len(h) >= HistoryMaxLen THEN h ELSE Append(h, x)

\* deque.append on a deque(maxlen=10): the oldest value leaves a full history
DequeAppend(h, x) ==
    IF Len(h) >= HistoryMaxLen THEN Append(Tail(h), x) ELSE Append(h, x)

RECURSIVE SeqSum(_)
SeqSum(s) == IF s = <<>> THEN 0 ELSE Head(s) + SeqSum(Tail(s))

\* list(hist)[-5:]
LastFive(h) == IF Len(h) <= 5 THEN h ELSE SubSeq(h, Len(h) - 4, Len(h))

\* predict_next_usage(name) on ledgers ms and usage history uh
PredictNextUsage(ms, uh, name) ==
    LET hist == uh[name] IN
    IF Len(hist) < 3 THEN ms[name].usage
    ELSE LET recent == LastFive(hist)
             n == Max(1, Len(recent))
             \* avg + trend = (sum(recent) + recent[-1] - recent[0]) / len(recent)
         IN Max(0, (SeqSum(recent) + recent[Len(recent)] - recent[1]) \div n)

\* check_sla with the penalty not capped at an overshoot ratio of 1
CheckSlaLedgerUncapped(l, latency) ==
    IF latency > l.sla_ms
    THEN LET overshoot == ((latency - l.sla_ms) * RatioScale) \div Max(1, l.sla_ms)
             penalty == (((l.penalty_rate * l.initial_budget) \div RatioScale)
                          * overshoot) \div RatioScale
         IN [l EXCEPT !.violation_history = Append(@, overshoot),
                      !.budget_remaining = Max(0, l.budget_remaining - penalty)]
    ELSE l

CheckSlaLedgerNoFloor(l, latency) ==
    IF latency > l.sla_ms
    THEN LET overshoot == ((latency - l.sla_ms) * RatioScale) \div Max(1, l.sla_ms)
             penalty == (((l.penalty_rate * l.initial_budget) \div RatioScale)
                          * Min(RatioScale, overshoot)) \div RatioScale
         IN [l EXCEPT !.violation_history = Append(@, overshoot),
                      !.budget_remaining = l.budget_remaining - penalty]
    ELSE l

\* check_sla(module_name, actual_latency_ms)
CheckSlaLedger(l, latency) ==
    IF latency > l.sla_ms
    THEN LET overshoot == ((latency - l.sla_ms) * RatioScale) \div Max(1, l.sla_ms)
             penalty == (((l.penalty_rate * l.initial_budget) \div RatioScale)
                          * Min(RatioScale, overshoot)) \div RatioScale
         IN [l EXCEPT !.violation_history = Append(@, overshoot),
                      !.budget_remaining = Max(0, l.budget_remaining - penalty)]
    ELSE l

\* AuctionBudgetManager._priority, in tenths
Priority(name) ==
    CASE name = "decoder" -> 9
      [] name = "planner" -> 7
      [] name = "actuator" -> 10
      [] OTHER -> 5

\* a/b < c/d for a, c >= 0 and b, d > 0, without forming the cross products
RECURSIVE FracLT(_, _, _, _)
FracLT(a, b, c, d) ==
    LET qa == a \div b
        qc == c \div d
        ra == a % b
        rc == c % d
    IN IF qa # qc THEN qa < qc
       ELSE IF rc = 0 THEN FALSE
       ELSE IF ra = 0 THEN TRUE
       ELSE FracLT(d, rc, b, ra)

\* score = _priority(name) * _urgency(name), as the fraction num/den (in tenths)
ScoreNum(ms, name) ==
    LET I == Max(U(1), ms[name].initial_budget)
    IN Priority(name) * (I - Min(I, ms[name].budget_remaining))

ScoreDen(ms, name) == Max(U(1), ms[name].initial_budget)

ScoreGT(ms, a, b) == FracLT(ScoreNum(ms, b), ScoreDen(ms, b), ScoreNum(ms, a), ScoreDen(ms, a))

\* the requests left in dict order
AuctionOrderUnsorted(ms) == ModuleOrder

\* requests.sort(key=score, reverse=True): stable, so equal scores keep dict order
AuctionOrder(ms) ==
    LET n == Len(ModuleOrder)
        before(j, i) == \/ ScoreGT(ms, ModuleOrder[j], ModuleOrder[i])
                        \/ (~ScoreGT(ms, ModuleOrder[i], ModuleOrder[j]) /\ j < i)
        pos(i) == 1 + Cardinality({j \in 1..n : j # i /\ before(j, i)})
    IN [p \in 1..n |-> ModuleOrder[CHOOSE i \in 1..n : pos(i) = p]]

\* the greedy loop of AuctionBudgetManager.allocate_cycle from position i on
RECURSIVE AuctionGrant(_, _, _, _)
AuctionGrant(ms, order, i, remaining) ==
    IF i > Len(order) THEN ms
    ELSE LET name == order[i]
             amount == ms[name].initial_budget \div 10
             give == Min(amount, remaining)
         IN IF give <= 0 THEN ms
            ELSE AuctionGrant([ms EXCEPT ![name] = LedgerTopUp(@, give)],
                              order, i + 1, remaining - give)

AuctionAllocate(ms, pool) == AuctionGrant(ms, AuctionOrder(ms), 1, pool)

\* the predictive top-up loop of PredictiveBudgetManager.allocate_cycle
RECURSIVE PredictiveTopUp(_, _, _, _)
PredictiveTopUp(ms, uh, pool, i) ==
    IF i > Len(ModuleOrder) THEN ms
    ELSE LET name == ModuleOrder[i]
             pred == PredictNextUsage(ms, uh, name)
             deficit == pred - ms[name].budget_remaining
             ms2 == IF deficit > 0
                    THEN [ms EXCEPT ![name] = LedgerTopUp(@, Min(deficit, pool \div 10))]
                    ELSE ms
         IN PredictiveTopUp(ms2, uh, pool, i + 1)

\* PredictiveBudgetManager.allocate_cycle
AllocateCycleOf(ms, uh, pool) == AuctionAllocate(PredictiveTopUp(ms, uh, pool, 1), pool)

--------------------------------------------------------------------------
(* GameTheoreticBudgetManager *)

\* _cache_ttl_s = 1.0
CacheTtl == 1 * TicksPerSecond

\* f"{x:.1f}": x rounded to one decimal (round-half-even), in tenths
Round1(v) ==
    LET tenth == Scale \div 10
        q == v \div tenth
        r == v % tenth
    IN IF 2 * r < tenth THEN q
       ELSE IF 2 * r > tenth THEN q + 1
       ELSE IF q % 2 = 0 THEN q ELSE q + 1

\* key_payload: the (name, remaining rounded to 1 decimal) pairs in name order.
\* The md5 digest of the payload is taken to be collision free.
CacheKey(ms) == [n \in Names |-> Round1(ms[n].budget_remaining)]

\* the TTL comparison inverted
CacheHitInverted(c, ct, key, t) == key \in DOMAIN c /\ (t - ct) >= CacheTtl

\* key in self._cache and (now - self._cache_t) < self._cache_ttl_s
CacheHit(c, ct, key, t) == key \in DOMAIN c /\ (t - ct) < CacheTtl

\* optimal without the max(0.0, ...) around the risk-adjusted prediction
NashOptimalNoFloor(ms, uh, pool, name) ==
    LET others == SeqSum([i \in 1..Len(ModuleOrder) |->
                            IF ModuleOrder[i] # name
                            THEN ms[ModuleOrder[i]].budget_remaining ELSE 0])
        available == Max(0, pool - others)
        predicted == PredictNextUsage(ms, uh, name)
        risk == (Scale \div 10) * Len(ms[name].violation_history)
    IN Min(available, (12 * predicted) \div 10 - risk)

\* the body of the `for name, m` loop: optimal for one module
NashOptimal(ms, uh, pool, name) ==
    LET others == SeqSum([i \in 1..Len(ModuleOrder) |->
                            IF ModuleOrder[i] # name
                            THEN ms[ModuleOrder[i]].budget_remaining ELSE 0])
        available == Max(0, pool - others)
        predicted == PredictNextUsage(ms, uh, name)
        risk == (Scale \div 10) * Len(ms[name].violation_history)
    IN Min(available, Max(0, (12 * predicted) \div 10 - risk))

NashPass(ms, uh, pool) == [n \in Names |-> NashOptimal(ms, uh, pool, n)]

Abs(x) == IF x < 0 THEN 0 - x ELSE x

\* relaxed convergence: all within 5.0 of the current remaining
NashConverged(ms, strategies) ==
    \A n \in Names : Abs(strategies[n] - ms[n].budget_remaining) < U(5)

\* `for _ in range(10)`
NashMaxIter == 10

\* Number of passes of the fixed-point loop.  A pass reads the ledgers and the
\* usage history only, and the loop writes neither, so every pass yields the
\* same strategies: the loop ends after the first pass if that pass is within
\* 5.0 of the ledgers, and after all the passes otherwise.
NashPasses(ms, strategies) == IF NashConverged(ms, strategies) THEN 1 ELSE NashMaxIter

\* find_nash_equilibrium(): the value returned, the cache and its timestamp
\* afterwards, and the number of predict_next_usage calls made
FindNashEquilibrium(ms, uh, pool, c, ct, t) ==
    LET key == CacheKey(ms) IN
    IF CacheHit(c, ct, key, t)
    THEN [result |-> c[key].strategies, computed_at |-> c[key].at, hit |-> TRUE,
          cache |-> c, cache_t |-> ct, predict_calls |-> 0]
    ELSE LET strategies == NashPass(ms, uh, pool)
             entry == [strategies |-> strategies, at |-> t]
         IN [result |-> strategies, computed_at |-> t, hit |-> FALSE,
             cache |-> [k \in (DOMAIN c) \cup {key} |-> IF k = key THEN entry ELSE c[k]],
             cache_t |-> t,
             predict_calls |-> NashPasses(ms, strategies) * Cardinality(Names)]

\* negotiate_resources: the surplus and deficit lists, as (name, amount) pairs
RECURSIVE SurplusList(_, _)
SurplusList(ms, i) ==
    IF i > Len(ModuleOrder) THEN <<>>
    ELSE LET n == ModuleOrder[i]
             m == ms[n]
         IN (IF 2 * m.budget_remaining > 3 * Max(U(1), m.usage)
             THEN <<[name |-> n, amt |-> m.budget_remaining - m.usage]>> ELSE <<>>)
            \o SurplusList(ms, i + 1)

RECURSIVE DeficitList(_, _)
DeficitList(ms, i) ==
    IF i > Len(ModuleOrder) THEN <<>>
    ELSE LET n == ModuleOrder[i]
             m == ms[n]
         IN (IF 5 * m.budget_remaining < m.initial_budget
             THEN <<[name |-> n, amt |-> m.initial_budget \div 5 - m.budget_remaining]>>
             ELSE <<>>)
            \o DeficitList(ms, i + 1)

\* the inner loop without the threshold: the first deficit entry
FirstRecipientNoThreshold(s_amt, deficit, j) == IF j > Len(deficit) THEN 0 ELSE j

\* the inner loop: the first deficit entry from j on that min(s, d) > 10 holds for
RECURSIVE FirstRecipient(_, _, _)
FirstRecipient(s_amt, deficit, j) ==
    IF j > Len(deficit) THEN 0
    ELSE IF Min(s_amt, deficit[j].amt) > U(10) THEN j
    ELSE FirstRecipient(s_amt, deficit, j + 1)

\* a transfer that debits the donor and credits nobody
TransferDebitOnly(ms, from, to, give) == [ms EXCEPT ![from].budget_remaining = @ - give]

\* budget_remaining -= give on the donor, += give on the recipient
Transfer(ms, from, to, give) ==
    LET a == [ms EXCEPT ![from].budget_remaining = @ - give]
    IN [a EXCEPT ![to].budget_remaining = @ + give]

\* the outer loop over the donors from i on
RECURSIVE NegotiateFrom(_, _, _, _)
NegotiateFrom(ms, surplus, deficit, i) ==
    IF i > Len(surplus) THEN ms
    ELSE LET j == FirstRecipient(surplus[i].amt, deficit, 1)
             ms2 == IF j = 0 THEN ms
                    ELSE Transfer(ms, surplus[i].name, deficit[j].name,
                                  Min(surplus[i].amt, deficit[j].amt))
         IN NegotiateFrom(ms2, surplus, deficit, i + 1)

NegotiateResources(ms) == NegotiateFrom(ms, SurplusList(ms, 1), DeficitList(ms, 1), 1)

--------------------------------------------------------------------------
(* The allocator's calls as actions.  `last` and `prev` record the two most
   recent calls: the arguments, the value returned and the ledgers before. *)

\* amounts given to request() and top_up() when the ledger is driven directly
LedgerAmounts == {U(100), U(200), U(500)}

TopUpAmounts == {U(100), 0 - U(300)}

\* process_action's request amounts
RequestAmount == [decoder |-> U(100), planner |-> U(200), actuator |-> U(150)]

\* latencies reported to check_sla, in ms
Latencies == {45, 100}

NoCall == [op |-> "none"]

InitAllocOf(cfg) ==
    /\ global_pool = cfg.pool
    /\ modules = [n \in Names |-> NewLedger(cfg.budgets[n], cfg.slas[n])]
    /\ usage_history = [n \in Names |-> <<>>]
    /\ cache = <<>>
    /\ cache_t = 0
    /\ now = 0
    /\ last = NoCall
    /\ prev = NoCall
    /\ ops = 0

InitAlloc == \E cfg \in Configs : InitAllocOf(cfg)

Called(rec) ==
    /\ ops < MaxOps
    /\ ops' = ops + 1
    /\ prev' = last
    /\ last' = rec

\* modules[m].request(amount)
Request(m, amount) ==
    LET r == LedgerRequest(modules[m], amount) IN
    /\ Called([op |-> "request", module |-> m, amount |-> amount, ok |-> r.ok,
               before |-> modules])
    /\ modules' = [modules EXCEPT ![m] = r.ledger]
    /\ UNCHANGED <<global_pool, usage_history, cache, cache_t, now>>
    /\ UNCHANGED nonAllocVars

\* modules[m].top_up(amount)
TopUp(m, amount) ==
    /\ Called([op |-> "top_up", module |-> m, amount |-> amount, before |-> modules])
    /\ modules' = [modules EXCEPT ![m] = LedgerTopUp(@, amount)]
    /\ UNCHANGED <<global_pool, usage_history, cache, cache_t, now>>
    /\ UNCHANGED nonAllocVars

\* check_sla(m, latency)
CheckSla(m, latency) ==
    /\ Called([op |-> "check_sla", module |-> m, latency |-> latency, before |-> modules])
    /\ modules' = [modules EXCEPT ![m] = CheckSlaLedger(@, latency)]
    /\ UNCHANGED <<global_pool, usage_history, cache, cache_t, now>>
    /\ UNCHANGED nonAllocVars

\* PredictiveBudgetManager.allocate_cycle()
AllocateCycle ==
    /\ Called([op |-> "allocate_cycle", before |-> modules])
    /\ modules' = AllocateCycleOf(modules, usage_history, global_pool)
    /\ UNCHANGED <<global_pool, usage_history, cache, cache_t, now>>
    /\ UNCHANGED nonAllocVars

\* negotiate_resources()
Negotiate ==
    /\ Called([op |-> "negotiate", before |-> modules])
    /\ modules' = NegotiateResources(modules)
    /\ UNCHANGED <<global_pool, usage_history, cache, cache_t, now>>
    /\ UNCHANGED nonAllocVars

\* PredictiveBudgetManager.end_cycle(): record the usages, then penalize_cycle each
EndCycleOf(ms) == [n \in Names |-> PenalizeCycle(ms[n])]

EndCycle ==
    /\ Called([op |-> "end_cycle", before |-> modules])
    /\ usage_history' = [n \in Names |-> DequeAppend(usage_history[n], modules[n].usage)]
    /\ modules' = EndCycleOf(modules)
    /\ UNCHANGED <<global_pool, cache, cache_t, now>>
    /\ UNCHANGED nonAllocVars

FindRecord(op, f, t) ==
    [op |-> op, result |-> f.result, hit |-> f.hit, predict_calls |-> f.predict_calls,
     computed_at |-> f.computed_at, at |-> t, cache_t |-> f.cache_t, before |-> modules]

\* find_nash_equilibrium(), time.time() returning t
FindNash(t) ==
    LET f == FindNashEquilibrium(modules, usage_history, global_pool, cache, cache_t, t) IN
    /\ Called(FindRecord("find", f, t))
    /\ now' = t
    /\ cache' = f.cache
    /\ cache_t' = f.cache_t
    /\ UNCHANGED <<global_pool, modules, usage_history>>
    /\ UNCHANGED nonAllocVars

ApplyStrategiesDropped(ms, eq) == ms

\* run_loop: eq = find_nash_equilibrium(); every ledger's remaining := eq[k]
ApplyStrategies(ms, eq) == [n \in Names |-> [ms[n] EXCEPT !.budget_remaining = eq[n]]]

ApplyEquilibrium(t) ==
    LET f == FindNashEquilibrium(modules, usage_history, global_pool, cache, cache_t, t) IN
    /\ Called(FindRecord("apply_eq", f, t))
    /\ now' = t
    /\ cache' = f.cache
    /\ cache_t' = f.cache_t
    /\ modules' = ApplyStrategies(modules, f.result)
    /\ UNCHANGED <<global_pool, usage_history>>
    /\ UNCHANGED nonAllocVars

\* the values time.time() may return next: the clock does not run backwards
Clock == now..MaxTime

--------------------------------------------------------------------------
(* Decision planner: numeric helpers.
   A planner state <<battery, energy>> is kept in half units (0.5 * cost is
   then an integer); values (rewards, Q-values, delta-V) in thousandths. *)

Actions == 0..2

\* the default "reject" action: best_action = 2
RejectAction == 2

\* PlannerModule.target_state = [75, 75], in half units
TargetState == <<150, 150>>

\* estimate_params: base[action] = (reward, cost, success)
BaseReward == <<10, 5, 0>>

BaseCost == <<5, 2, 0>>

\* self.rng.normal(0.0, 0.5, 3): the draws the model lets the generator make
Noise == {-1, 0, 1}

\* the cost estimate_params returns for one draw
CostOf(a, n) == BaseCost[a + 1] + n

\* the reward estimate_params returns for one draw
RewardOf(a, n) == BaseReward[a + 1] + n

\* _budget_gate(state, action), its estimate_params drawing noise n:
\* cost <= battery and 0.5 * cost <= energy
BudgetGate(st, a, n) == 2 * CostOf(a, n) <= st[1] /\ CostOf(a, n) <= st[2]

GateRejectsNever(st, a, n) == FALSE

\* `if not self._budget_gate(state, action)` in decide_with_stability
GateRejects(st, a, n) == ~BudgetGate(st, a, n)

\* np.maximum(state - [cost, 0.5 * cost], 0.0)
NextState(st, c) == <<Max(st[1] - 2 * c, 0), Max(st[2] - c, 0)>>

\* LyapunovStabilityAnalyzer.V with P = [[2, 0.1], [0.1, 2]]; 40 * V for half units
V40(st) ==
    LET e1 == st[1] - TargetState[1]
        e2 == st[2] - TargetState[2]
    IN 20 * e1 * e1 + 2 * e1 * e2 + 20 * e2 * e2

\* LyapunovStabilityAnalyzer.stable: dv (in thousandths), stable iff dv < 0
DeltaV(st, nxt) == (V40(nxt) - V40(st)) * 25

StableAlways(st, nxt) == TRUE

\* `if not stable` in decide_with_stability: stable iff dv < 0
Stable(st, nxt) == DeltaV(st, nxt) < 0

\* PlannerModule.force_simplify, which nothing in the package sets
ForceSimplify == FALSE

\* decide_rule_based(state)
DecideRuleBased(st) ==
    IF ForceSimplify THEN 1
    ELSE IF st[2] > 2 * 50 /\ st[1] > 2 * 30 THEN 0
    ELSE IF st[2] > 2 * 30 /\ st[1] > 2 * 15 THEN 1
    ELSE 2

\* TabularPolicy.bins = (11, 11)
BinCount == 11

Clip(x, lo, hi) == IF x < lo THEN lo ELSE IF x > hi THEN hi ELSE x

\* encode_state: floor(x / 10) clipped to the table
EncodeState(st) ==
    <<Clip(st[1] \div 20, 0, BinCount - 1), Clip(st[2] \div 20, 0, BinCount - 1)>>

\* A table of shape (11, 11, action_size) is kept as the value it was filled
\* with and the rows written since.
NoRows == [b \in {} |-> 0]

FilledTable(v) == [base |-> v, rows |-> NoRows]

\* np.zeros((11, 11, action_size))
ZeroTable == FilledTable(0)

\* a row of a table filled with v
FilledRow(v) == (0 :> v) @@ (1 :> v) @@ (2 :> v)

\* TabularPolicy.q_values(state)
QValues(q, st) ==
    IF EncodeState(st) \in DOMAIN q.rows THEN q.rows[EncodeState(st)]
    ELSE FilledRow(q.base)

\* TabularPolicy.update_q(state, action, value)
UpdateQ(q, st, a, value) ==
    [q EXCEPT !.rows = (EncodeState(st) :> [QValues(q, st) EXCEPT ![a] = value]) @@ @]

\* q_table is np.array: two tables are equal when every row is
SameTable(q1, q2) ==
    \A b \in DOMAIN q1.rows \cup DOMAIN q2.rows \cup {<<0, 0>>} :
        (IF b \in DOMAIN q1.rows THEN q1.rows[b] ELSE FilledRow(q1.base))
            = (IF b \in DOMAIN q2.rows THEN q2.rows[b] ELSE FilledRow(q2.base))

\* np.argmax: the first index of the maximum
ArgMax(row) ==
    CHOOSE a \in Actions :
        /\ \A b \in Actions : row[b] <= row[a]
        /\ \A b \in Actions : row[b] = row[a] => a <= b

\* propose_action_distribution(state, k = action_size): the actions ranked by
\* (-q, -prob, index); prob grows with q, so by q descending, then index
ProposeActionDistribution(q, st) ==
    LET row == QValues(q, st)
        pos(a) == 1 + Cardinality({b \in Actions :
                        row[b] > row[a] \/ (row[b] = row[a] /\ b < a)})
    IN [p \in 1..Cardinality(Actions) |-> CHOOSE a \in Actions : pos(a) = p]

\* the candidate list of decide_with_stability
Candidates(enabled, q, st, action_lqr) ==
    (IF enabled THEN ProposeActionDistribution(q, st) ELSE <<>>)
        \o <<action_lqr, DecideRuleBased(st)>>

\* The `for action in candidates` loop from position i on.  acc carries
\* best_action, best_score (none = -inf), seen, the gate rejections counted,
\* and the candidates that failed the budget gate / passed both gates.
\* gn[a] and en[a] are the noise drawn by _budget_gate and by estimate_params
\* when candidate a is examined (each action is examined at most once).
RECURSIVE DecideLoop(_, _, _, _, _, _, _, _)
DecideLoop(cands, i, st, enabled, q, gn, en, acc) ==
    IF i > Len(cands) THEN acc
    ELSE LET a == cands[i] IN
         IF a \in acc.seen THEN DecideLoop(cands, i + 1, st, enabled, q, gn, en, acc)
         ELSE LET acc1 == [acc EXCEPT !.seen = @ \cup {a}] IN
              IF GateRejects(st, a, gn[a])
              THEN DecideLoop(cands, i + 1, st, enabled, q, gn, en,
                              [acc1 EXCEPT !.rejections = @ + 1,
                                           !.gate_failed = @ \cup {a}])
              ELSE LET nxt == NextState(st, CostOf(a, en[a]))
                       dv == DeltaV(st, nxt)
                   IN IF ~Stable(st, nxt)
                      THEN DecideLoop(cands, i + 1, st, enabled, q, gn, en,
                                      [acc1 EXCEPT !.rejections = @ + 1])
                      ELSE LET score == (IF enabled THEN QValues(q, st)[a] ELSE 0) - dv
                               better == ~acc1.scored \/ score > acc1.best_score
                               acc2 == [acc1 EXCEPT !.survived = @ \cup {a}]
                           IN DecideLoop(cands, i + 1, st, enabled, q, gn, en,
                                  IF better
                                  THEN [acc2 EXCEPT !.best_action = a,
                                                    !.best_score = score,
                                                    !.scored = TRUE]
                                  ELSE acc2)

\* decide_with_stability(state): the action returned and the counter increments
DecideWithStability(st, enabled, q, action_lqr, gn, en) ==
    LET cands == Candidates(enabled, q, st, action_lqr)
        acc0 == [best_action |-> RejectAction, best_score |-> 0, scored |-> FALSE,
                 seen |-> {}, rejections |-> 0, gate_failed |-> {}, survived |-> {}]
        res == DecideLoop(cands, 1, st, enabled, q, gn, en, acc0)
    IN [action |-> res.best_action,
        candidates |-> cands,
        rejections |-> res.rejections,
        fallback |-> IF res.best_action = 2 THEN 1 ELSE 0,
        gate_failed |-> res.gate_failed,
        survived |-> res.survived,
        q_consulted |-> enabled]

--------------------------------------------------------------------------
(* Reward shaping (rl/reward.py), values in thousandths *)

\* delta_v_penalty(delta_v)
DeltaVPenalty(dv) == IF dv >= 0 THEN 0 - Max(0, dv) - 500 ELSE 500

\* budget_efficiency(spent, available): spent in units, available in half units
BudgetEfficiency(spent, available) ==
    IF available <= 0 THEN 0 - 1000
    ELSE Clip(1000 - (2000 * spent) \div available, 0, 1000)

\* sla_penalty(latency_ms, sla_ms)
SlaPenalty(latency_ms, sla_ms) ==
    IF sla_ms <= 0 THEN 0 - 1000
    ELSE 0 - (1000 * Max(0, latency_ms - sla_ms)) \div sla_ms

\* task_success(intent, action_name, approved)
TaskSuccess(intent, action_name, approved) ==
    IF approved /\ intent = action_name THEN 1000 ELSE 0

\* compute_reward with the default RewardWeights (1, 0.5, 0.5, 1), clipped to +-10
ComputeReward(dv, spent, available, latency_ms, sla_ms, intent, action_name, approved) ==
    Clip(DeltaVPenalty(dv)
           + BudgetEfficiency(spent, available) \div 2
           + SlaPenalty(latency_ms, sla_ms) \div 2
           + TaskSuccess(intent, action_name, approved),
         0 - 10000, 10000)

--------------------------------------------------------------------------
(* Training (PlannerModule.train, rl/trainer.py, rl/buffer.py) *)

\* PlannerConfig.max_episodes, max_steps_per_episode
MaxEpisodes == 3

MaxStepsPerEpisode == 8

\* TrajectoryBuffer.capacity
BufferCapacity == 256

\* What the random generators deliver during one train call: rn and cn are
\* the reward and cost noise of estimate_params, ex the action an exploring
\* propose_action picks (-1: the policy never explores in this call).
RolloutDraws == [rn : {0}, cn : {0, 1}, ex : {0 - 1, 1}]

\* TabularPolicy.propose_action(state)
ProposeAction(q, st, draws) ==
    IF draws.ex >= 0 THEN draws.ex ELSE ArgMax(QValues(q, st))

\* _simulate_transition(state, action), as the Transition train() stores
SimulateTransition(st, a, draws) ==
    LET cost == CostOf(a, draws.cn)
        nxt == NextState(st, cost)
        dv == DeltaV(st, nxt)
        reward == ComputeReward(dv, cost, Max(st[1], 2), 20, 50, "train", "train",
                                Stable(st, nxt))
    IN [state |-> st, action |-> a,
        reward |-> 1000 * RewardOf(a, draws.rn) + reward,
        next_state |-> nxt,
        done |-> (nxt[1] < 2 * 5 \/ nxt[2] < 2 * 5)]

\* TrajectoryBuffer.add
AddDropsNewest(data, capacity, transition) ==
    IF Len(data) >= capacity THEN data ELSE Append(data, transition)

\* TrajectoryBuffer.add on a buffer of the given capacity
Add(data, capacity, transition) ==
    IF Len(data) >= capacity THEN Append(Tail(data), transition)
    ELSE Append(data, transition)

BufferAdd(buf, tr) == Add(buf, BufferCapacity, tr)

\* the `for step` loop of train() from step on
RECURSIVE RolloutSteps(_, _, _, _, _)
RolloutSteps(q, st, step, draws, buf) ==
    LET tr == SimulateTransition(st, ProposeAction(q, st, draws), draws)
        buf1 == BufferAdd(buf, tr)
    IN IF tr.done \/ step + 1 >= MaxStepsPerEpisode THEN buf1
       ELSE RolloutSteps(q, tr.next_state, step + 1, draws, buf1)

\* the `for episode` loop of train() from episode on
RECURSIVE RolloutEpisodes(_, _, _, _)
RolloutEpisodes(q, episode, draws, buf) ==
    IF episode >= MaxEpisodes THEN buf
    ELSE RolloutEpisodes(q, episode + 1, draws,
             RolloutSteps(q, <<2 * (80 - 2 * episode), 2 * (75 - 2 * episode)>>,
                          0, draws, buf))

\* np.max(q_values(next_state))
MaxQ(q, st) == QValues(q, st)[ArgMax(QValues(q, st))]

\* QLearningTrainer.train_step with gamma = 0.95 and alpha = 0.1
TrainStep(q, tr) ==
    LET q_sa == QValues(q, tr.state)[tr.action]
        next_q == MaxQ(q, tr.next_state)
        target == tr.reward + (IF tr.done THEN 0 ELSE (95 * next_q) \div 100)
        td_error == target - q_sa
        updated == q_sa + td_error \div 10
    IN [q |-> UpdateQ(q, tr.state, tr.action, updated),
        td_error |-> td_error]

\* one epoch: the first max_steps_per_epoch transitions in insertion order
RECURSIVE TrainEpoch(_, _, _, _)
TrainEpoch(q, buf, i, tds) ==
    IF i > Len(buf) \/ i > MaxStepsPerEpisode THEN [q |-> q, td_errors |-> tds]
    ELSE LET r == TrainStep(q, buf[i])
         IN TrainEpoch(r.q, buf, i + 1, Append(tds, r.td_error))

\* QLearningTrainer.train_epochs(buffer, epochs)
RECURSIVE TrainEpochs(_, _, _, _)
TrainEpochs(q, buf, epochs, tds) ==
    IF epochs <= 0 THEN [q |-> q, td_errors |-> tds]
    ELSE LET r == TrainEpoch(q, buf, 1, tds)
         IN TrainEpochs(r.q, buf, epochs - 1, r.td_errors)

\* float(np.mean(np.abs(td_errors)))
RECURSIVE SumAbs(_)
SumAbs(sq) == IF sq = <<>> THEN 0 ELSE Abs(Head(sq)) + SumAbs(Tail(sq))

MeanAbs(sq) == SumAbs(sq) \div Len(sq)

--------------------------------------------------------------------------
(* Digest-checked persistence (rl/persistence.py, utils.StateManager).
   A file is the sequence of what was written to it; <<>> is "no such file".
   sha256 is taken to be collision free: a digest names its input. *)

NoFile == <<>>

\* _compute_sha256 / StateManager._digest
Sha256(bytes) == <<"sha256", bytes>>

\* Python values that json distinguishes
PyNum(n) == [py |-> "num", v |-> n]

PyTuple(sq) == [py |-> "tuple", v |-> sq]

PyList(sq) == [py |-> "list", v |-> sq]

\* json.dumps of a dict of numbers and sequences: tuples and lists both
\* become arrays
JsonDumps(dict) ==
    [k \in DOMAIN dict |->
        IF dict[k].py = "num" THEN [json |-> "number", v |-> dict[k].v]
        ELSE [json |-> "array", v |-> dict[k].v]]

\* json.loads: an array comes back as a list
JsonLoads(text) ==
    [k \in DOMAIN text |->
        IF text[k].json = "number" THEN PyNum(text[k].v) ELSE PyList(text[k].v)]

\* np.savez_compressed(...) as save_policy_artifact calls it
NpzBytes(artifact) ==
    <<"npz", [schema_version |-> artifact.schema_version,
              algo |-> artifact.algo,
              hyperparams |-> JsonDumps(artifact.hyperparams),
              weights |-> artifact.weights,
              feature_spec |-> JsonDumps(artifact.feature_spec),
              action_mapping |-> artifact.action_mapping,
              seed |-> artifact.seed,
              timestamp |-> artifact.timestamp,
              policy_version |-> artifact.policy_version]>>

\* save_policy_artifact(artifact, path): the model file and its sidecar
SavePolicyArtifact(artifact) ==
    [model_file |-> NpzBytes(artifact), sha_file |-> Sha256(NpzBytes(artifact))]

\* np.load can read the file
Readable(bytes) == Len(bytes) = 2 /\ bytes[1] = "npz"

LoadRaises(kind) == [raised |-> TRUE, error |-> kind]

LoadDigestUnchecked(sha, bytes) == TRUE

\* expected_sha == actual_sha: the stored digest is the digest of the payload
DigestMatches(sha, bytes) == sha = Sha256(bytes)

\* load_policy_artifact(path)
LoadPolicyArtifact(mf, sf) ==
    IF mf = NoFile \/ sf = NoFile THEN LoadRaises("FileNotFoundError")
    ELSE IF ~DigestMatches(sf, mf) THEN LoadRaises("ValueError")
    ELSE IF ~Readable(mf) THEN LoadRaises("np.load")
    ELSE LET data == mf[2]
         IN [raised |-> FALSE,
             artifact |-> [schema_version |-> data.schema_version,
                           algo |-> data.algo,
                           hyperparams |-> JsonLoads(data.hyperparams),
                           weights |-> data.weights,
                           feature_spec |-> JsonLoads(data.feature_spec),
                           action_mapping |-> data.action_mapping,
                           seed |-> data.seed,
                           timestamp |-> data.timestamp,
                           policy_version |-> data.policy_version]]

\* pickle.dumps / pickle.loads
PickleDumps(obj) == <<"pickle", obj>>

PickleLoadable(bytes) == Len(bytes) = 2 /\ bytes[1] = "pickle"

\* StateManager.save_state(obj, name): the .pkl and .sha256 files
SaveState(obj) ==
    [pkl |-> PickleDumps(obj), sha |-> Sha256(PickleDumps(obj))]

\* StateManager.load_state(name)
LoadState(files) ==
    IF files.pkl = NoFile \/ files.sha = NoFile THEN LoadRaises("FileNotFoundError")
    ELSE IF ~DigestMatches(files.sha, files.pkl) THEN LoadRaises("ValueError")
    ELSE IF ~PickleLoadable(files.pkl) THEN LoadRaises("UnpicklingError")
    ELSE [raised |-> FALSE, obj |-> files.pkl[2]]

--------------------------------------------------------------------------
(* The planner's construction, decisions and training as actions *)

MaxDecisions == 1

MaxTrains == 1

\* the states decide_with_stability is called with, <<battery, energy>> in units
PlannerStates == {<<80, 80>>, <<50, 50>>, <<20, 20>>, <<0, 0>>}

HalfUnits(st) == <<2 * st[1], 2 * st[2]>>

\* rl_policy_version = "v0"; f"v{int(time.time())}" is <<"v", seconds>>
VersionOf(n) == <<"v", n>>

\* the hyperparams train() stores: gamma, alpha, epsilon in thousandths
TrainHyperparams ==
    [gamma |-> PyNum(950), alpha |-> PyNum(100), epsilon |-> PyNum(100),
     max_episodes |-> PyNum(MaxEpisodes),
     max_steps_per_episode |-> PyNum(MaxStepsPerEpisode)]

PlannerSeed == 1337

\* the PolicyArtifact train() builds
TrainArtifact(q, version, t) ==
    [schema_version |-> "1.0", algo |-> "tabular_q_learning",
     hyperparams |-> TrainHyperparams,
     weights |-> q,
     feature_spec |-> [state_bins |-> PyTuple(<<BinCount, BinCount>>)],
     action_mapping |-> <<0, 1, 2>>,
     seed |-> PlannerSeed, timestamp |-> t, policy_version |-> version]

\* an artifact an earlier process left behind (weights 0.5 everywhere, "v3")
StoredArtifact ==
    [schema_version |-> "1.0", algo |-> "tabular_q_learning",
     hyperparams |-> [gamma |-> PyNum(900)],
     weights |-> FilledTable(500),
     feature_spec |-> [state_bins |-> PyTuple(<<BinCount, BinCount>>)],
     action_mapping |-> <<0, 1, 2>>,
     seed |-> 0, timestamp |-> 0, policy_version |-> VersionOf(3)]

\* bytes that are no archive at all (b"corrupt")
Garbage == <<"garbage">>

\* a changed byte: the file no longer decodes, or decodes to something else
FlipByte(bytes, how) ==
    IF how = "undecodable" \/ Len(bytes) # 2 THEN Garbage
    ELSE IF bytes[1] = "npz"
         THEN <<"npz", [bytes[2] EXCEPT !.policy_version = <<"flipped">>]>>
         ELSE <<"pickle", [bytes[2] EXCEPT !.cycle = @ + 1]>>

FlipKinds == {"undecodable", "altered"}

\* the model file and sidecar a planner may find when it is constructed
BootDisks ==
    LET ok == SavePolicyArtifact(StoredArtifact)
    IN {[model_file |-> NoFile, sha_file |-> NoFile],
        [model_file |-> NoFile, sha_file |-> ok.sha_file],
        ok,
        [model_file |-> ok.model_file, sha_file |-> NoFile],
        [model_file |-> Garbage, sha_file |-> <<"bad">>],
        [model_file |-> FlipByte(ok.model_file, "altered"), sha_file |-> ok.sha_file],
        [model_file |-> Garbage, sha_file |-> Sha256(Garbage)]}

\* what is on disk, as _load_model meets it
BootCondition(mf, sf) ==
    IF mf = NoFile THEN "missing"
    ELSE IF sf = NoFile THEN "nosha"
    ELSE IF sf # Sha256(mf) THEN "mismatch"
    ELSE IF mf[1] # "npz" THEN "unreadable"
    ELSE "valid"

LoadModelKeepsEnabled(mf, sf) ==
    IF mf = NoFile \/ LoadPolicyArtifact(mf, sf).raised
    THEN [rl_enabled |-> TRUE, q_table |-> ZeroTable, version |-> VersionOf(0),
          raised |-> FALSE]
    ELSE [rl_enabled |-> TRUE,
          q_table |-> LoadPolicyArtifact(mf, sf).artifact.weights,
          version |-> LoadPolicyArtifact(mf, sf).artifact.policy_version,
          raised |-> FALSE]

LoadModelMissingDisables(mf, sf) ==
    IF mf = NoFile \/ LoadPolicyArtifact(mf, sf).raised
    THEN [rl_enabled |-> FALSE, q_table |-> ZeroTable, version |-> VersionOf(0),
          raised |-> FALSE]
    ELSE [rl_enabled |-> TRUE,
          q_table |-> LoadPolicyArtifact(mf, sf).artifact.weights,
          version |-> LoadPolicyArtifact(mf, sf).artifact.policy_version,
          raised |-> FALSE]

\* _load_model(path): rl_enabled, the table and the version it leaves, and
\* whether an exception escapes it
LoadModel(mf, sf) ==
    IF mf = NoFile
    THEN [rl_enabled |-> TRUE, q_table |-> ZeroTable, version |-> VersionOf(0),
          raised |-> FALSE]
    ELSE IF LoadPolicyArtifact(mf, sf).raised
    THEN [rl_enabled |-> FALSE, q_table |-> ZeroTable, version |-> VersionOf(0),
          raised |-> FALSE]
    ELSE [rl_enabled |-> TRUE,
          q_table |-> LoadPolicyArtifact(mf, sf).artifact.weights,
          version |-> LoadPolicyArtifact(mf, sf).artifact.policy_version,
          raised |-> FALSE]

\* the planner as __init__ has it just before it calls _load_model
InitPlanner ==
    /\ pstage = "new"
    /\ boot = "none"
    /\ rl_enabled = TRUE
    /\ q_table = ZeroTable
    /\ rl_buffer = <<>>
    /\ rl_last_td_error = 0
    /\ rl_updates = 0
    /\ rl_policy_version = VersionOf(0)
    /\ rl_gate_rejections = 0
    /\ rl_fallbacks = 0
    /\ rl_decisions = 0
    /\ trains = 0
    /\ plast = NoCall

StateNames == {<<1, "move_arm">>, <<2, "stop">>}

NoFiles == [pkl |-> NoFile, sha |-> NoFile]

InitFilesOf(disk) ==
    /\ model_file = disk.model_file
    /\ sha_file = disk.sha_file
    /\ state_files = [n \in StateNames |-> NoFiles]
    /\ saved_policy = <<>>
    /\ saved_state = [n \in StateNames |-> <<>>]
    /\ io_last = NoCall
    /\ io_ops = 0

\* PlannerModule.__init__: self._load_model(Path(self.cfg.artifact_path))
Construct ==
    /\ pstage = "new"
    /\ LET r == LoadModel(model_file, sha_file)
       IN /\ rl_enabled' = r.rl_enabled
          /\ q_table' = r.q_table
          /\ rl_policy_version' = r.version
          /\ plast' = [op |-> "construct", raised |-> r.raised]
    /\ boot' = BootCondition(model_file, sha_file)
    /\ pstage' = "ready"
    /\ UNCHANGED <<rl_buffer, rl_last_td_error, rl_updates, rl_gate_rejections,
                   rl_fallbacks, rl_decisions, trains>>
    /\ UNCHANGED <<allocVars, fileVars, sysVars, unitVars>>

\* what a decide_with_stability call was given (the generator's draws
\* included) and returned; gate_ok is the budget precheck of the returned
\* action under the noise drawn for it
DecisionRecord(s, action_lqr, gn, en, r) ==
    [op |-> "decide", state |-> s, action_lqr |-> action_lqr,
     action |-> r.action, candidates |-> r.candidates,
     gate_failed |-> r.gate_failed, survived |-> r.survived,
     q_consulted |-> r.q_consulted, fallback |-> r.fallback,
     gate_noise |-> gn, cost_noise |-> en,
     gate_ok |-> BudgetGate(s, r.action, gn[r.action])]

\* decide_with_stability(state), the regulator proposing action_lqr and the
\* generator drawing gn[a] in _budget_gate and en[a] in estimate_params
Decide(st, action_lqr, gn, en) ==
    /\ pstage = "ready"
    /\ rl_decisions < MaxDecisions
    /\ \E r \in {DecideWithStability(HalfUnits(st), rl_enabled, q_table,
                                       action_lqr, gn, en)} :
          /\ rl_decisions' = rl_decisions + 1
          /\ rl_gate_rejections' = rl_gate_rejections + r.rejections
          /\ rl_fallbacks' = rl_fallbacks + r.fallback
          /\ plast' = DecisionRecord(HalfUnits(st), action_lqr, gn, en, r)
    /\ UNCHANGED <<pstage, boot, rl_enabled, q_table, rl_buffer, rl_last_td_error,
                   rl_updates, rl_policy_version, trains>>
    /\ UNCHANGED <<allocVars, fileVars, sysVars, unitVars>>

TrainNeverSkipped(enabled) == FALSE

\* `if not self.rl_enabled: return`
TrainSkipped(enabled) == ~enabled

\* the epochs train() is called with
EpochChoices == {0, 1, 2}

\* train(epochs): the generators' draws and the clock reading t taken when the
\* version is formed are its other inputs
TrainCall(epochs) ==
    /\ pstage = "ready"
    /\ trains < MaxTrains
    /\ trains' = trains + 1
    /\ IF TrainSkipped(rl_enabled)
       THEN /\ plast' = [op |-> "train", ran |-> FALSE]
            /\ UNCHANGED <<q_table, rl_buffer, rl_last_td_error, rl_updates,
                           rl_policy_version, now, model_file, sha_file, saved_policy>>
       ELSE \E draws \in RolloutDraws :
            \E buf \in {RolloutEpisodes(q_table, 0, draws, <<>>)} :
            \E r \in {TrainEpochs(q_table, buf, epochs, <<>>)} :
            \E t \in Clock :
            LET version == VersionOf(t \div TicksPerSecond)
                files == SavePolicyArtifact(TrainArtifact(r.q, version, t))
            IN /\ rl_buffer' = buf
               /\ q_table' = r.q
               /\ rl_last_td_error' =
                      IF r.td_errors # <<>> THEN MeanAbs(r.td_errors)
                      ELSE rl_last_td_error
               /\ rl_updates' = rl_updates + Len(r.td_errors)
               /\ rl_policy_version' = version
               /\ now' = t
               /\ model_file' = files.model_file
               /\ sha_file' = files.sha_file
               /\ saved_policy' = <<TrainArtifact(r.q, version, t)>>
               /\ plast' = [op |-> "train", ran |-> TRUE]
    /\ UNCHANGED <<pstage, boot, rl_enabled, rl_gate_rejections, rl_fallbacks,
                   rl_decisions>>
    /\ UNCHANGED <<global_pool, modules, usage_history, cache, cache_t, last, prev, ops>>
    /\ UNCHANGED <<state_files, saved_state, io_last, io_ops>>

\* train called on the planner directly
Train ==
    /\ \E epochs \in EpochChoices : TrainCall(epochs)
    /\ UNCHANGED <<sysVars, unitVars>>

--------------------------------------------------------------------------
(* Two planners built one after the other over the same working directory,
   each with its own generators seeded at construction *)

MaxTwinDraws == 1

\* the seeds the planners are constructed with
TwinSeeds == {123, 42}

\* np.random.default_rng(seed): the pos-th draw of the generator is a function
\* of the seed and of the number of draws taken before it
RngBit(seed, pos) == (seed \div (2 ^ pos)) % 2

TrainDrawsClocked(seed, planner_pos, policy_pos, t) ==
    [rn |-> 0, cn |-> RngBit(seed + t, planner_pos),
     ex |-> IF RngBit(seed + t, policy_pos) = 1 THEN 1 ELSE 0 - 1]

\* what train() draws: the cost noise from PlannerModule.rng and the
\* exploration choice from TabularPolicy.rng, both seeded with the planner's
\* seed; the clock reading t is not an input of either generator
TrainDraws(seed, planner_pos, policy_pos, t) ==
    [rn |-> 0, cn |-> RngBit(seed, planner_pos),
     ex |-> IF RngBit(seed, policy_pos) = 1 THEN 1 ELSE 0 - 1]

UnbuiltPlanner ==
    [built |-> FALSE, boot |-> "none", seed |-> 0, rl_enabled |-> FALSE,
     q_table |-> ZeroTable, planner_pos |-> 0, policy_pos |-> 0,
     rl_decisions |-> 0, trained |-> "no", epochs |-> 0,
     from_scratch |-> FALSE, trained_at |-> 0, version |-> VersionOf(0)]

TwinsUnbuilt == [stage |-> "run", p |-> <<UnbuiltPlanner, UnbuiltPlanner>>]

\* PlannerModule(seed = seed), the i-th of the two
TwinConstruct(i, seed) ==
    /\ twin.stage = "run"
    /\ ~twin.p[i].built
    /\ \E r \in {LoadModel(model_file, sha_file)} :
         twin' = [twin EXCEPT !.p[i] =
                    [UnbuiltPlanner EXCEPT !.built = TRUE,
                                           !.boot = BootCondition(model_file, sha_file),
                                           !.seed = seed,
                                           !.rl_enabled = r.rl_enabled,
                                           !.q_table = r.q_table,
                                           !.version = r.version]]
    /\ UNCHANGED <<allocVars, plannerVars, fileVars, sysVars>>
    /\ UNCHANGED <<mode, degradation_mode, loop, tbuf, ulast>>

\* decide_with_stability on the i-th planner: its counter and the draws it
\* takes from PlannerModule.rng
TwinDecide(i) ==
    /\ twin.stage = "run"
    /\ twin.p[i].built
    /\ twin.p[i].planner_pos < MaxTwinDraws
    /\ twin' = [twin EXCEPT !.p[i].planner_pos = @ + 1,
                            !.p[i].rl_decisions = @ + 1]
    /\ UNCHANGED <<allocVars, plannerVars, fileVars, sysVars>>
    /\ UNCHANGED <<mode, degradation_mode, loop, tbuf, ulast>>

\* train(epochs) on the i-th planner, the clock reading t
TwinTrain(i, epochs, t) ==
    /\ twin.stage = "run"
    /\ twin.p[i].built
    /\ twin.p[i].trained = "no"
    /\ LET pl == twin.p[i] IN
       IF TrainSkipped(pl.rl_enabled)
       THEN /\ twin' = [twin EXCEPT !.p[i].trained = "skipped"]
            /\ UNCHANGED <<now, model_file, sha_file, saved_policy>>
       ELSE \E draws \in {TrainDraws(pl.seed, pl.planner_pos, pl.policy_pos, t)} :
            \E buf \in {RolloutEpisodes(pl.q_table, 0, draws, <<>>)} :
            \E r \in {TrainEpochs(pl.q_table, buf, epochs, <<>>)} :
            LET version == VersionOf(t \div TicksPerSecond)
                files == SavePolicyArtifact(TrainArtifact(r.q, version, t))
            IN /\ twin' = [twin EXCEPT !.p[i] =
                             [pl EXCEPT !.trained = "ran",
                                        !.epochs = epochs,
                                        !.q_table = r.q,
                                        !.from_scratch = (pl.planner_pos = 0
                                                          /\ pl.policy_pos = 0),
                                        !.trained_at = t,
                                        !.version = version,
                                        !.planner_pos = @ + 1,
                                        !.policy_pos = @ + 1]]
               /\ now' = t
               /\ model_file' = files.model_file
               /\ sha_file' = files.sha_file
               /\ saved_policy' = <<TrainArtifact(r.q, version, t)>>
    /\ UNCHANGED <<global_pool, modules, usage_history, cache, cache_t, last, prev, ops>>
    /\ UNCHANGED <<state_files, saved_state, io_last, io_ops>>
    /\ UNCHANGED <<plannerVars, sysVars>>
    /\ UNCHANGED <<mode, degradation_mode, loop, tbuf, ulast>>

\* the artifact and its sidecar removed between the two planners
TwinUnlink ==
    /\ twin.stage = "run"
    /\ model_file # NoFile
    /\ model_file' = NoFile
    /\ sha_file' = NoFile
    /\ saved_policy' = <<>>
    /\ UNCHANGED <<state_files, saved_state, io_last, io_ops>>
    /\ UNCHANGED <<allocVars, plannerVars, sysVars, unitVars>>

--------------------------------------------------------------------------
(* Direct persistence calls, and what may happen to the files in between *)

MaxIo == 4

\* the artifacts handed to save_policy_artifact
ArtifactsToSave == {StoredArtifact, TrainArtifact(ZeroTable, VersionOf(0), 0)}

\* the snapshots run_loop hands to save_state under the name cycle_<i>_<action>
StateObjects(name) ==
    {[cycle |-> name[1], action |-> name[2], battery |-> b, energy |-> 100] :
        b \in {100, 97}}

IoCalled(rec) ==
    /\ io_ops < MaxIo
    /\ io_ops' = io_ops + 1
    /\ io_last' = rec
    /\ UNCHANGED <<allocVars, plannerVars, sysVars, unitVars>>

\* save_policy_artifact(artifact)
SavePolicy(artifact) ==
    /\ model_file' = SavePolicyArtifact(artifact).model_file
    /\ sha_file' = SavePolicyArtifact(artifact).sha_file
    /\ saved_policy' = <<artifact>>
    /\ IoCalled([op |-> "save_policy"])
    /\ UNCHANGED <<state_files, saved_state>>

\* load_policy_artifact()
LoadPolicy ==
    /\ LET r == LoadPolicyArtifact(model_file, sha_file)
       IN IoCalled([op |-> "load_policy", raised |-> r.raised,
                    returned |-> IF r.raised THEN <<>> ELSE <<r.artifact>>,
                    digest_ok |-> (model_file # NoFile /\ sha_file = Sha256(model_file)),
                    expect |-> saved_policy])
    /\ UNCHANGED <<model_file, sha_file, state_files, saved_policy, saved_state>>

\* a byte of the model file changes
FlipModel(how) ==
    /\ model_file # NoFile
    /\ model_file' = FlipByte(model_file, how)
    /\ saved_policy' = <<>>
    /\ IoCalled([op |-> "flip_model"])
    /\ UNCHANGED <<sha_file, state_files, saved_state>>

\* the sidecar is replaced by the digest of some other payload
StaleDigest ==
    /\ sha_file # NoFile
    /\ sha_file' = Sha256(Garbage)
    /\ saved_policy' = <<>>
    /\ IoCalled([op |-> "stale_digest"])
    /\ UNCHANGED <<model_file, state_files, saved_state>>

\* StateManager.save_state(obj, name)
SaveStateCall(name, obj) ==
    /\ state_files' = [state_files EXCEPT ![name] = SaveState(obj)]
    /\ saved_state' = [saved_state EXCEPT ![name] = <<obj>>]
    /\ IoCalled([op |-> "save_state", name |-> name])
    /\ UNCHANGED <<model_file, sha_file, saved_policy>>

\* StateManager.load_state(name)
LoadStateCall(name) ==
    /\ LET r == LoadState(state_files[name])
           f == state_files[name]
       IN IoCalled([op |-> "load_state", name |-> name, raised |-> r.raised,
                    returned |-> IF r.raised THEN <<>> ELSE <<r.obj>>,
                    digest_ok |-> (f.pkl # NoFile /\ f.sha = Sha256(f.pkl)),
                    expect |-> saved_state[name]])
    /\ UNCHANGED <<model_file, sha_file, state_files, saved_policy, saved_state>>

\* a byte of a state payload changes
FlipState(name, how) ==
    /\ state_files[name].pkl # NoFile
    /\ state_files' = [state_files EXCEPT ![name].pkl = FlipByte(@, how)]
    /\ saved_state' = [saved_state EXCEPT ![name] = <<>>]
    /\ IoCalled([op |-> "flip_state", name |-> name])
    /\ UNCHANGED <<model_file, sha_file, saved_policy>>

--------------------------------------------------------------------------
(* Health and degradation *)

\* contracts.DEFAULT_DEGRADATION_MODES
DegradationModes == {"FULL", "REDUCED", "MINIMAL", "SAFE"}

\* BudgetHealthMonitor({"decoder": 50.0, "planner": 100.0, "actuator": 100.0})
HealthThresholds == [decoder |-> U(50), planner |-> U(100), actuator |-> U(100)]

\* BudgetHealthMonitor.check_health(budget_manager).healthy: no module's
\* remaining budget is below its threshold
CheckHealth(ms) ==
    \A n \in Names : ~(ms[n].budget_remaining < HealthThresholds[n])

AssessAndDegradeStrict(b, e, healthy, thresholds) ==
    IF b < thresholds[1] \/ e < thresholds[2] THEN "SAFE"
    ELSE IF ~healthy THEN "REDUCED"
    ELSE "FULL"

\* GracefulDegradation.assess_and_degrade(battery, user_energy, health,
\* thresholds): the mode it sets and returns
AssessAndDegrade(b, e, healthy, thresholds) ==
    IF b <= thresholds[1] \/ e <= thresholds[2] THEN "SAFE"
    ELSE IF ~healthy THEN "REDUCED"
    ELSE "FULL"

\* battery and energy levels and (battery_threshold, energy_threshold) pairs
\* assess_and_degrade is called with
AssessLevels == {0, 10, 11, 15, 20, 21, 100}

AssessThresholds == {<<10, 20>>, <<0, 0>>, <<100, 100>>}

\* assess_and_degrade called on the GracefulDegradation object
AssessCall(b, e, healthy, thresholds) ==
    /\ mode' = AssessAndDegrade(b, e, healthy, thresholds)
    /\ ulast' = [op |-> "assess", battery |-> b, energy |-> e, healthy |-> healthy,
                 thresholds |-> thresholds, prev_mode |-> mode,
                 returned |-> AssessAndDegrade(b, e, healthy, thresholds)]
    /\ UNCHANGED <<allocVars, plannerVars, fileVars, sysVars>>
    /\ UNCHANGED <<degradation_mode, loop, twin, tbuf>>

\* GracefulDegradation.apply_mode(system)
ApplyModeCall ==
    /\ degradation_mode' = mode
    /\ ulast' = [op |-> "apply_mode"]
    /\ UNCHANGED <<allocVars, plannerVars, fileVars, sysVars>>
    /\ UNCHANGED <<mode, loop, twin, tbuf>>

--------------------------------------------------------------------------
(* Runtime contracts.
   A float is <<"num", n>> (n in the units of its quantity), or one of the
   non-finite values; a dict is the sequence of its <<key, value>> items in
   insertion order. *)

Num(n) == <<"num", n>>

NaN == <<"nan">>

PosInf == <<"inf">>

NegInf == <<"-inf">>

\* _is_finite(x)
IsFinite(x) == x[1] = "num"

\* v < 0.0: false of nan, true of -inf
LessThanZero(x) == x = NegInf \/ (IsFinite(x) /\ x[2] < 0)

\* float(v) <= 0.0
AtMostZero(x) == x = NegInf \/ (IsFinite(x) /\ x[2] <= 0)

BudgetRejectedAtZero(v) == ~IsFinite(v) \/ AtMostZero(v)

\* BUD-001 for one budget value
BudgetRejected(v) == ~IsFinite(v) \/ LessThanZero(v)

\* SLA-001 for one SLA value
SlaRejected(v) == ~IsFinite(v) \/ AtMostZero(v)

Keys(items) == {items[i][1] : i \in 1..Len(items)}

\* known_modules is None
NoKnownModules == <<"none">>

KnownModules(names) == <<"some", names>>

\* validate_budget_snapshot(snapshot, known_modules): the invariant whose
\* violation it raises, or "ok" when it returns
RECURSIVE BudgetLoop(_, _)
BudgetLoop(budgets, i) ==
    IF i > Len(budgets) THEN "ok"
    ELSE IF BudgetRejected(budgets[i][2]) THEN "BUD-001"
    ELSE BudgetLoop(budgets, i + 1)

RECURSIVE SlaLoop(_, _)
SlaLoop(slas, i) ==
    IF i > Len(slas) THEN "ok"
    ELSE IF SlaRejected(slas[i][2]) THEN "SLA-001"
    ELSE SlaLoop(slas, i + 1)

ValidateBudgetSnapshot(budgets, slas, known) ==
    IF BudgetLoop(budgets, 1) # "ok" THEN BudgetLoop(budgets, 1)
    ELSE IF SlaLoop(slas, 1) # "ok" THEN SlaLoop(slas, 1)
    ELSE IF known # NoKnownModules /\ known[2] \ Keys(budgets) # {} THEN "BUD-002"
    ELSE "ok"

\* the values and dicts the validator is called with
SnapshotValues == {Num(0 - 1), Num(0), Num(10), NaN, PosInf, NegInf}

SnapshotDicts ==
    {<<>>} \cup {<<<<"decoder", v>>>> : v \in SnapshotValues}
           \cup {<<<<"decoder", v>>, <<"planner", w>>>> :
                    v \in SnapshotValues, w \in SnapshotValues}

SnapshotSlas ==
    {<<>>} \cup {<<<<"decoder", v>>>> : v \in SnapshotValues}
           \cup {<<<<"decoder", Num(10)>>, <<"planner", w>>>> :
                    w \in {Num(0), Num(10), NaN}}

SnapshotKnown ==
    {NoKnownModules, KnownModules({}), KnownModules({"decoder"}),
     KnownModules({"decoder", "planner"})}

\* validate_budget_snapshot called on its own
ValidateBudgetCall(budgets, slas, known) ==
    /\ ulast' = [op |-> "validate_budget", budgets |-> budgets, slas |-> slas,
                 known |-> known,
                 raised |-> ValidateBudgetSnapshot(budgets, slas, known) # "ok",
                 code |-> ValidateBudgetSnapshot(budgets, slas, known)]
    /\ UNCHANGED <<allocVars, plannerVars, fileVars, sysVars>>
    /\ UNCHANGED <<mode, degradation_mode, loop, twin, tbuf>>

--------------------------------------------------------------------------
(* The system-scalars contract *)

\* x < n and x > n of a float: false of nan
LessThan(x, n) == x = NegInf \/ (IsFinite(x) /\ x[2] < n)

GreaterThan(x, n) == x = PosInf \/ (IsFinite(x) /\ x[2] > n)

\* BAT-001
BatteryRejected(b) == ~IsFinite(b) \/ LessThan(b, 0) \/ GreaterThan(b, 100)

EnergyRejectedStrict(e, allow_negative_energy) ==
    ~IsFinite(e) \/ LessThan(e, 0) \/ GreaterThan(e, 100)

\* ENE-001
EnergyRejected(e, allow_negative_energy) ==
    \/ ~IsFinite(e)
    \/ ~allow_negative_energy /\ (LessThan(e, 0) \/ GreaterThan(e, 100))
    \/ allow_negative_energy /\ GreaterThan(e, 100)

\* validate_system_scalars(state, allow_negative_energy): the invariant whose
\* violation it raises, or "ok" when it returns
ValidateSystemScalars(b, e, m, allow_negative_energy) ==
    IF BatteryRejected(b) THEN "BAT-001"
    ELSE IF EnergyRejected(e, allow_negative_energy) THEN "ENE-001"
    ELSE IF m \notin DegradationModes THEN "MOD-001"
    ELSE "ok"

\* the values the validator is called with
ScalarValues == {Num(0 - 1), Num(0), Num(50), Num(100), Num(101), NaN, PosInf, NegInf}

ScalarModes == DegradationModes \cup {"TURBO"}

\* validate_system_scalars called on its own
ValidateScalarsCall(b, e, m, allow_negative_energy) ==
    /\ ulast' = [op |-> "validate_scalars", battery |-> b, energy |-> e, mode |-> m,
                 allow_negative_energy |-> allow_negative_energy,
                 code |-> ValidateSystemScalars(b, e, m, allow_negative_energy),
                 raised |-> ValidateSystemScalars(b, e, m, allow_negative_energy) # "ok"]
    /\ UNCHANGED <<allocVars, plannerVars, fileVars, sysVars>>
    /\ UNCHANGED <<mode, degradation_mode, loop, twin, tbuf>>

--------------------------------------------------------------------------
(* ResourceAwareSystem.process_action.  The coroutine runs without suspending
   from its entry to the sleep inside actuator.perform (the sensor call and
   decode_intent do not yield), and from there to its end. *)

MaxCalls == 2

\* CircuitBreaker.failure_threshold
BreakerThreshold == 5

\* CircuitBreaker.reset_timeout_s = 60.0, in clock ticks
BreakerResetTimeout == 60 * TicksPerSecond

\* CircuitBreaker(): failures = 0, opened_at = None
NewBreaker == [failures |-> 0, open |-> FALSE, opened_at |-> 0]

\* CircuitBreaker.call up to the invocation of fn: an open breaker inside its
\* cooldown raises, one past it is reset and lets the call through
BreakerAdmit(br, t) ==
    IF br.open /\ t - br.opened_at < BreakerResetTimeout
    THEN [admitted |-> FALSE, breaker |-> br]
    ELSE [admitted |-> TRUE, breaker |-> IF br.open THEN NewBreaker ELSE br]

\* CircuitBreaker.call after fn returned
BreakerSuccess(br) == [br EXCEPT !.failures = 0]

BreakerFailureLate(br, t) ==
    IF br.failures + 1 > BreakerThreshold
    THEN [failures |-> br.failures + 1, open |-> TRUE, opened_at |-> t]
    ELSE [br EXCEPT !.failures = @ + 1]

\* CircuitBreaker.call after fn raised
BreakerFailure(br, t) ==
    IF br.failures + 1 >= BreakerThreshold
    THEN [failures |-> br.failures + 1, open |-> TRUE, opened_at |-> t]
    ELSE [br EXCEPT !.failures = @ + 1]

\* IntentionDecoder.thresholds
Intents == {"move_arm", "plan_route", "stop"}

\* the action names process_action is called with
ActionNames == Intents \cup {"dance"}

\* SystemConfig.safety_mode
SafetyMode == "strict"

\* ActuatorModule.perform raises before it sleeps
PerformRejects(action_name) ==
    SafetyMode = "strict" /\ action_name \notin {"move_arm", "plan_route", "stop"}

\* the latencies process_action measures, in ms
SysLatencies == {5, 100}

\* what monitor_resources reads: <<mean firing rate in Hz, metabolic ATP in
\* thousandths>>; the validator admits rates in [0, max_firing_hz = 200], the
\* metabolic update clips ATP to [0, 10e-3]
EnergyReadings == {<<25, 5>>, <<10, 5>>}

DecodeEnergyUnclipped(reading) == (100 * reading[1] * reading[2]) \div (25 * 5)

\* N1Simulator.decode_energy: 100 * (mean_rate / 25) * (ATP / 5e-3), clipped
\* to [0, 100]
DecodeEnergy(reading) == Clip((100 * reading[1] * reading[2]) \div (25 * 5), 0, 100)

\* max(0, 3 + N(0, 1)): the battery drained by one monitor_resources call
Depletion(noise) == Max(0, 3 + noise)

Depletions == {Depletion(0 - 1), Depletion(1)}

HoldsLockNever(e) == FALSE

\* the step is made inside `async with self.resource_lock`: only the body of
\* monitor_resources is
HoldsLock(e) == e = "monitor"

\* one step of process_action: what it was, for which module, whether it
\* succeeded, and whether the resource lock was held
Ev(e, m, ok) == [ev |-> e, module |-> m, ok |-> ok, locked |-> HoldsLock(e)]

NoProcessAction ==
    [pc |-> "idle", action_name |-> "none", intent |-> "none", a |-> 0 - 1,
     reading |-> <<>>, log |-> <<>>]

DeniedNever(granted) == FALSE

\* `if not self.budget_manager.modules[...].request(...): return`
Denied(granted) == ~granted

\* process_action leaves (returns, raises or suspends) before the planner ran
LeaveEarly(ms, br, c) ==
    /\ modules' = ms
    /\ breaker' = br
    /\ call' = c
    /\ UNCHANGED <<rl_gate_rejections, rl_fallbacks, rl_decisions, plast>>

\* process_action leaves after decide_with_stability returned r
LeaveDecided(ms, br, c, action_lqr, gn, r) ==
    /\ modules' = ms
    /\ breaker' = br
    /\ call' = c
    /\ rl_decisions' = rl_decisions + 1
    /\ rl_gate_rejections' = rl_gate_rejections + r.rejections
    /\ rl_fallbacks' = rl_fallbacks + r.fallback
    /\ plast' = DecisionRecord(HalfUnits(<<battery, user_energy>>), action_lqr, gn, gn, r)

\* GracefulDegradation.__init__: mode = "FULL"; system.degradation_mode = "FULL"
NewMode == "FULL"

\* run_loop not called
NoLoop == [pc |-> "idle"]

NoTwin == [stage |-> "none"]

\* TrajectoryBuffer(): no transition held
NoBuffer == [data |-> <<>>, added |-> <<>>]

NoUnitCall == [op |-> "none"]

\* the degradation mode as __init__ leaves it, run_loop not called, and the
\* objects exercised on their own untouched
InitUnitsIdle ==
    /\ mode = NewMode
    /\ degradation_mode = NewMode
    /\ loop = NoLoop
    /\ twin = NoTwin
    /\ tbuf = NoBuffer
    /\ ulast = NoUnitCall

\* what the devices and the estimators may deliver during process_action
SysInputs ==
    [sensor_ok |-> BOOLEAN, intents |-> Intents, latencies |-> SysLatencies,
     lqr |-> Actions, noise |-> Noise, energy |-> EnergyReadings,
     drained |-> Depletions]

\* process_action(action_name) from its entry to its return, to the exception
\* that ends it or to the sleep inside actuator.perform, the clock reading t
\* and what the devices and the estimators deliver drawn from env
ProcessActionEnter(env, action_name, t) ==
    /\ call.pc # "performing"
    /\ calls' = calls + 1
    /\ now' = t
    /\ LET c0 == [NoProcessAction EXCEPT !.action_name = action_name]
           d == LedgerRequest(modules["decoder"], RequestAmount["decoder"])
           ms1 == [modules EXCEPT !["decoder"] = d.ledger]
           log1 == <<Ev("request", "decoder", d.ok)>>
           adm == BreakerAdmit(breaker, t)
       IN
       IF Denied(d.ok)
       THEN LeaveEarly(ms1, breaker, [c0 EXCEPT !.pc = "done", !.log = log1])
       ELSE IF ~adm.admitted
       THEN LeaveEarly(ms1, breaker, [c0 EXCEPT !.pc = "raised", !.log = log1])
       ELSE \E sensor_ok \in env.sensor_ok :
       IF ~sensor_ok
       THEN LeaveEarly(ms1, BreakerFailure(adm.breaker, t),
                       [c0 EXCEPT !.pc = "raised",
                                  !.log = Append(log1, Ev("sensor", "decoder", FALSE))])
       ELSE \E intent \in env.intents, dec_ms \in env.latencies :
       LET br2 == BreakerSuccess(adm.breaker)
           ms2 == [ms1 EXCEPT !["decoder"] = CheckSlaLedger(@, dec_ms)]
           c2 == [c0 EXCEPT !.intent = intent]
           log2 == log1 \o <<Ev("sensor", "decoder", TRUE), Ev("decode", "decoder", TRUE)>>
           p == LedgerRequest(ms2["planner"], RequestAmount["planner"])
           ms3 == [ms2 EXCEPT !["planner"] = p.ledger]
           log3 == Append(log2, Ev("request", "planner", p.ok))
       IN
       IF intent # action_name
       THEN LeaveEarly(ms2, br2, [c2 EXCEPT !.pc = "done", !.log = log2])
       ELSE IF Denied(p.ok)
       THEN LeaveEarly(ms3, br2, [c2 EXCEPT !.pc = "done", !.log = log3])
       ELSE \E action_lqr \in env.lqr, n \in env.noise, plan_ms \in env.latencies :
            \E r \in {DecideWithStability(HalfUnits(<<battery, user_energy>>),
                                          rl_enabled, q_table, action_lqr,
                                          [x \in Actions |-> n], [x \in Actions |-> n])} :
       LET gn == [x \in Actions |-> n]
           ms4 == [ms3 EXCEPT !["planner"] = CheckSlaLedger(@, plan_ms)]
           c4 == [c2 EXCEPT !.a = r.action]
           log4 == Append(log3, Ev("decide", "planner", TRUE))
           ac == LedgerRequest(ms4["actuator"], RequestAmount["actuator"])
           ms5 == [ms4 EXCEPT !["actuator"] = ac.ledger]
           log5 == Append(log4, Ev("request", "actuator", ac.ok))
           adm2 == BreakerAdmit(br2, t)
           log6 == Append(log5, Ev("perform", "actuator", ~PerformRejects(action_name)))
       IN
       IF r.action \notin {0, 1}
       THEN LeaveDecided(ms4, br2, [c4 EXCEPT !.pc = "done", !.log = log4],
                         action_lqr, gn, r)
       ELSE IF Denied(ac.ok)
       THEN LeaveDecided(ms5, br2, [c4 EXCEPT !.pc = "done", !.log = log5],
                         action_lqr, gn, r)
       ELSE IF ~adm2.admitted
       THEN LeaveDecided(ms5, br2, [c4 EXCEPT !.pc = "raised", !.log = log5],
                         action_lqr, gn, r)
       ELSE IF PerformRejects(action_name)
       THEN LeaveDecided(ms5, BreakerFailure(adm2.breaker, t),
                         [c4 EXCEPT !.pc = "raised", !.log = log6], action_lqr, gn, r)
       ELSE LeaveDecided(ms5, adm2.breaker,
                         [c4 EXCEPT !.pc = "performing", !.log = log6], action_lqr, gn, r)
    /\ UNCHANGED <<global_pool, usage_history, cache, cache_t, last, prev, ops>>
    /\ UNCHANGED <<pstage, boot, rl_enabled, q_table, rl_buffer, rl_last_td_error,
                   rl_updates, rl_policy_version, trains>>
    /\ UNCHANGED <<battery, user_energy>>
    /\ UNCHANGED fileVars

\* process_action called on the system directly
ProcessActionStart(action_name, t) ==
    /\ loop.pc = "idle"
    /\ calls < MaxCalls
    /\ ProcessActionEnter(SysInputs, action_name, t)
    /\ UNCHANGED unitVars

\* process_action from the end of actuator.perform's sleep: the actuator SLA
\* check, then monitor_resources
ProcessActionLeave(env, t) ==
    /\ call.pc = "performing"
    /\ now' = t
    /\ \E act_ms \in env.latencies, sensor_ok \in env.sensor_ok,
          energy \in env.energy, drained \in env.drained :
       LET br1 == BreakerSuccess(breaker)
           adm == BreakerAdmit(br1, t)
           \* validate_system_scalars at the end of monitor_resources
           valid == ValidateSystemScalars(Num(Max(0, battery - drained)),
                                          Num(DecodeEnergy(energy)),
                                          degradation_mode, FALSE) = "ok"
       IN /\ modules' = [modules EXCEPT !["actuator"] = CheckSlaLedger(@, act_ms)]
          /\ IF ~adm.admitted
             THEN /\ breaker' = br1
                  /\ call' = [call EXCEPT !.pc = "raised"]
                  /\ UNCHANGED <<battery, user_energy>>
             ELSE IF ~sensor_ok
             THEN /\ breaker' = BreakerFailure(adm.breaker, t)
                  /\ call' = [call EXCEPT !.pc = "raised",
                                          !.log = Append(@, Ev("monitor", "system", FALSE))]
                  /\ UNCHANGED <<battery, user_energy>>
             ELSE /\ breaker' = BreakerSuccess(adm.breaker)
                  /\ user_energy' = DecodeEnergy(energy)
                  /\ battery' = Max(0, battery - drained)
                  /\ call' = [call EXCEPT !.pc = IF valid THEN "done" ELSE "raised",
                                          !.reading = energy,
                                          !.log = Append(@, Ev("monitor", "system", valid))]
    /\ UNCHANGED <<global_pool, usage_history, cache, cache_t, last, prev, ops>>
    /\ UNCHANGED <<plannerVars, fileVars, calls>>

\* a direct process_action call resumed
ProcessActionResume(t) ==
    /\ loop.pc = "idle"
    /\ ProcessActionLeave(SysInputs, t)
    /\ UNCHANGED unitVars

\* a system as ResourceAwareSystem.__init__ leaves it when no artifact is on
\* disk, for the two configurations and a charged or a drained battery; the
\* breaker is fresh or one failure short of opening
InitSystemPartsOf(cfg, level, failures) ==
    /\ InitAllocOf(cfg)
    /\ pstage = "ready"
    /\ boot = "missing"
    /\ rl_enabled = TRUE
    /\ q_table = ZeroTable
    /\ rl_buffer = <<>>
    /\ rl_last_td_error = 0
    /\ rl_updates = 0
    /\ rl_policy_version = VersionOf(0)
    /\ rl_gate_rejections = 0
    /\ rl_fallbacks = 0
    /\ rl_decisions = 0
    /\ trains = 0
    /\ plast = [op |-> "construct", raised |-> FALSE]
    /\ InitFilesOf([model_file |-> NoFile, sha_file |-> NoFile])
    /\ battery = level
    /\ user_energy = level
    /\ breaker = [NewBreaker EXCEPT !.failures = failures]
    /\ calls = 0
    /\ InitUnitsIdle

\* the system with no process_action running
InitSystemOf(cfg, level, failures) ==
    /\ InitSystemPartsOf(cfg, level, failures)
    /\ call = NoProcessAction

\* the system untouched
InitSysIdle ==
    /\ battery = 100
    /\ user_energy = 100
    /\ breaker = NewBreaker
    /\ call = NoProcessAction
    /\ calls = 0
    /\ InitUnitsIdle

\* the planner not yet constructed, nothing on disk
InitIdle ==
    /\ InitPlanner
    /\ InitFilesOf([model_file |-> NoFile, sha_file |-> NoFile])
    /\ InitSysIdle

--------------------------------------------------------------------------
(* The circuit breaker called on its own *)

MaxBreakerCalls == 8

\* time passed between one call and the next, in clock ticks
BreakerSteps == {0, BreakerResetTimeout - 1, BreakerResetTimeout}

\* number of breaker calls made so far, and of wrapped calls that raised since
\* the last one that returned
BreakerCalls == IF ulast.op = "call" THEN ulast.n ELSE 0

SinceSuccess == IF ulast.op = "call" THEN ulast.since_success ELSE 0

\* CircuitBreaker.call(fn) at clock reading now + step, fn raising or returning
BreakerCall(step, fn_raises) ==
    /\ BreakerCalls < MaxBreakerCalls
    /\ now' = now + step
    /\ LET t == now + step
           adm == BreakerAdmit(breaker, t)
           rec == [op |-> "call", n |-> BreakerCalls + 1, t |-> t,
                   fn_raises |-> fn_raises, before |-> breaker,
                   trial |-> (breaker.open /\ adm.admitted),
                   invoked |-> adm.admitted,
                   raised |-> (~adm.admitted \/ fn_raises),
                   since_success |->
                       IF ~adm.admitted THEN SinceSuccess
                       ELSE IF fn_raises THEN SinceSuccess + 1 ELSE 0]
       IN /\ ulast' = rec
          /\ breaker' = IF ~adm.admitted THEN adm.breaker
                        ELSE IF fn_raises THEN BreakerFailure(adm.breaker, t)
                        ELSE BreakerSuccess(adm.breaker)
    /\ UNCHANGED <<global_pool, modules, usage_history, cache, cache_t, last, prev, ops>>
    /\ UNCHANGED <<plannerVars, fileVars>>
    /\ UNCHANGED <<battery, user_energy, call, calls>>
    /\ UNCHANGED <<mode, degradation_mode, loop, twin, tbuf>>

--------------------------------------------------------------------------
(* The trajectory buffer used on its own: tbuf.data is _data, tbuf.added the
   transitions handed to add since the last clear. *)

MaxBufferOps == 5

BufferCapacities == {1, 2, 3}

Transitions == {"t1", "t2", "t3"}

\* TrajectoryBuffer.all
All(data) == data

\* TrajectoryBuffer.iter_deterministic
IterDeterministic(data) == data

BufferAddCall(transition) ==
    /\ tbuf.ops < MaxBufferOps
    /\ tbuf' = [tbuf EXCEPT !.data = Add(tbuf.data, tbuf.capacity, transition),
                            !.added = Append(tbuf.added, transition),
                            !.ops = tbuf.ops + 1,
                            !.evicted = Len(tbuf.data) >= tbuf.capacity]
    /\ UNCHANGED <<allocVars, plannerVars, fileVars, sysVars>>
    /\ UNCHANGED <<mode, degradation_mode, loop, twin, ulast>>

\* TrajectoryBuffer.clear
BufferClearCall ==
    /\ tbuf.ops < MaxBufferOps
    /\ tbuf' = [tbuf EXCEPT !.data = <<>>, !.added = <<>>,
                            !.ops = tbuf.ops + 1, !.evicted = FALSE]
    /\ UNCHANGED <<allocVars, plannerVars, fileVars, sysVars>>
    /\ UNCHANGED <<mode, degradation_mode, loop, twin, ulast>>

--------------------------------------------------------------------------
(* run_loop.
   loop.pc is where the call stands: "head" before a cycle's wd.reset(),
   "process" before its process_action call, "performing" while that call
   sleeps in actuator.perform, "tail" after it returned, "raised" when an
   exception left run_loop, "done" after the exports.  loop.log lists what
   the call has done, cycle by cycle; loop.direct is the number of
   process_action calls made on the system before run_loop was called. *)

\* run_loop(actions, epochs = 1)
LoopEpochs == 1

\* SystemConfig.watchdog_timeout_s = 1.0, in clock ticks
WatchdogTimeout == 1 * TicksPerSecond

\* (SystemConfig.battery_threshold, SystemConfig.energy_threshold)
LoopThresholds == <<10, 20>>

\* the action lists run_loop is called with
LoopActionLists == {<<"move_arm">>, <<"move_arm", "stop">>}

\* process_action calls made on the system before run_loop is called
MaxDirectCalls == 1

\* what the devices and the estimators deliver while run_loop is exercised
LoopInputs ==
    [sensor_ok |-> BOOLEAN, intents |-> {"move_arm", "stop"}, latencies |-> {5},
     lqr |-> {0}, noise |-> {0}, energy |-> {<<200, 10>>, <<5, 4>>},
     drained |-> Depletions]

\* process_action called on the system before run_loop is
DirectStart(action_name, t) ==
    /\ loop.pc = "idle"
    /\ calls < MaxDirectCalls
    /\ ProcessActionEnter(LoopInputs, action_name, t)
    /\ UNCHANGED unitVars

DirectResume(t) ==
    /\ loop.pc = "idle"
    /\ ProcessActionLeave(LoopInputs, t)
    /\ UNCHANGED unitVars

LoopEv(i, ev) == [cycle |-> i, ev |-> ev, locked |-> HoldsLock(ev)]

LoopEvents(i, evs) == [j \in 1..Len(evs) |-> LoopEv(i, evs[j])]

\* the events of a process_action log from position k + 1 on
CallEvents(i, log, k) == [j \in 1..(Len(log) - k) |-> LoopEv(i, log[k + j].ev)]

\* BudgetSnapshot(budgets = {k: float(v.budget_remaining)}, slas_ms = {k: float(v.sla_ms)})
BudgetSnapshot(ms) ==
    [budgets |-> [j \in 1..Len(ModuleOrder) |->
                    <<ModuleOrder[j], Num(ms[ModuleOrder[j]].budget_remaining)>>],
     slas_ms |-> [j \in 1..Len(ModuleOrder) |->
                    <<ModuleOrder[j], Num(ms[ModuleOrder[j]].sla_ms)>>]]

WatchdogExpiredLate(t, last_update) == t - last_update > WatchdogTimeout + 1

\* WatchdogTimer.check() raises: time.time() - last_update > timeout_s
WatchdogExpired(t, last_update) == t - last_update > WatchdogTimeout

AfterProcessActionNotAwaited(pc) ==
    IF pc = "performing" THEN "head"
    ELSE IF pc = "raised" THEN "raised"
    ELSE "tail"

\* where run_loop stands once process_action has returned, raised or suspended
AfterProcessAction(pc) ==
    IF pc = "performing" THEN "performing"
    ELSE IF pc = "raised" THEN "raised"
    ELSE "tail"

\* run_loop from its entry to the end of planner.train
LoopStart(actions) ==
    /\ loop.pc = "idle"
    /\ call.pc # "performing"
    /\ TrainCall(LoopEpochs)
    /\ loop' = [pc |-> "head", actions |-> actions, i |-> 0, wd_last |-> now,
                direct |-> calls, log |-> <<>>, error |-> "none"]
    /\ UNCHANGED sysVars
    /\ UNCHANGED <<mode, degradation_mode, twin, tbuf, ulast>>

\* a cycle from wd.reset() to the application of the equilibrium, the clock
\* reading t
LoopHead(t) ==
    /\ loop.pc = "head"
    /\ now' = t
    /\ LET i == loop.i + 1
           ms1 == AllocateCycleOf(modules, usage_history, global_pool)
           ms2 == NegotiateResources(ms1)
           snapshot == BudgetSnapshot(ms2)
           v == ValidateBudgetSnapshot(snapshot.budgets, snapshot.slas_ms,
                                       KnownModules(Names))
       IN
       IF v # "ok"
       THEN /\ modules' = ms2
            /\ loop' = [loop EXCEPT !.pc = "raised", !.i = i, !.wd_last = t,
                           !.error = v,
                           !.log = @ \o LoopEvents(i, <<"reset", "allocate", "negotiate",
                                                        "validate">>)]
            /\ UNCHANGED <<cache, cache_t>>
       ELSE \E f \in {FindNashEquilibrium(ms2, usage_history, global_pool,
                                          cache, cache_t, t)} :
            /\ modules' = ApplyStrategies(ms2, f.result)
            /\ cache' = f.cache
            /\ cache_t' = f.cache_t
            /\ loop' = [loop EXCEPT !.pc = "process", !.i = i, !.wd_last = t,
                           !.log = @ \o LoopEvents(i, <<"reset", "allocate", "negotiate",
                                                        "validate", "equilibrium">>)]
    /\ UNCHANGED <<global_pool, usage_history, last, prev, ops>>
    /\ UNCHANGED <<plannerVars, fileVars, sysVars>>
    /\ UNCHANGED <<mode, degradation_mode, twin, tbuf, ulast>>

\* `await self.process_action(act)` up to its return, its exception or the
\* sleep inside actuator.perform
LoopProcess(t) ==
    /\ loop.pc = "process"
    /\ ProcessActionEnter(LoopInputs, loop.actions[loop.i], t)
    /\ loop' = [loop EXCEPT !.pc = AfterProcessAction(call'.pc),
                            !.error = IF call'.pc = "raised" THEN "process_action" ELSE @,
                            !.log = @ \o CallEvents(loop.i, call'.log, 0)]
    /\ UNCHANGED <<mode, degradation_mode, twin, tbuf, ulast>>

\* process_action resumed after the sleep
LoopResume(t) ==
    /\ loop.pc = "performing"
    /\ ProcessActionLeave(LoopInputs, t)
    /\ loop' = [loop EXCEPT !.pc = AfterProcessAction(call'.pc),
                            !.error = IF call'.pc = "raised" THEN "process_action" ELSE @,
                            !.log = @ \o CallEvents(loop.i, call'.log, Len(call.log))]
    /\ UNCHANGED <<mode, degradation_mode, twin, tbuf, ulast>>

\* a cycle from end_cycle() to wd.check(), the clock reading t at the check;
\* after the last cycle the exports
LoopTail(t) ==
    /\ loop.pc = "tail"
    /\ now' = t
    /\ LET i == loop.i
           act == loop.actions[i]
           ms1 == EndCycleOf(modules)
           m == AssessAndDegrade(battery, user_energy, CheckHealth(ms1), LoopThresholds)
           obj == [cycle |-> i, action |-> act, battery |-> battery,
                   energy |-> user_energy]
           expired == WatchdogExpired(t, loop.wd_last)
       IN /\ usage_history' =
                 [n \in Names |-> DequeAppend(usage_history[n], modules[n].usage)]
          /\ modules' = ms1
          /\ mode' = m
          /\ degradation_mode' = m
          /\ state_files' = [state_files EXCEPT ![<<i, act>>] = SaveState(obj)]
          /\ saved_state' = [saved_state EXCEPT ![<<i, act>>] = <<obj>>]
          /\ loop' = [loop EXCEPT
                        !.pc = IF expired THEN "raised"
                               ELSE IF i = Len(loop.actions) THEN "done" ELSE "head",
                        !.error = IF expired THEN "watchdog" ELSE @,
                        !.log = @ \o LoopEvents(i, <<"end_cycle", "assess", "apply_mode",
                                                     "save", "check">>)]
    /\ UNCHANGED <<global_pool, cache, cache_t, last, prev, ops>>
    /\ UNCHANGED <<model_file, sha_file, saved_policy, io_last, io_ops>>
    /\ UNCHANGED <<plannerVars, sysVars>>
    /\ UNCHANGED <<twin, tbuf, ulast>>

--------------------------------------------------------------------------
(* The planner: constructed over whatever is on disk, then deciding and
   training in any order *)

InitPlannerSpec ==
    /\ InitAllocOf(DefaultConfig)
    /\ InitPlanner
    /\ InitSysIdle
    /\ \E disk \in BootDisks : InitFilesOf(disk)

NextPlanner ==
    \/ Construct
    \/ \E st \in PlannerStates, action_lqr \in Actions, g \in Noise, e \in Noise :
            Decide(st, action_lqr, [a \in Actions |-> g], [a \in Actions |-> e])
    \/ Train

SpecPlanner == InitPlannerSpec /\ [][NextPlanner]_vars

(* Degradation assessed on its own *)

InitDegrade == InitAllocOf(DefaultConfig) /\ InitIdle

NextDegrade ==
    \/ \E b \in AssessLevels, e \in AssessLevels, healthy \in BOOLEAN,
          thresholds \in AssessThresholds : AssessCall(b, e, healthy, thresholds)
    \/ ApplyModeCall

SpecDegrade == InitDegrade /\ [][NextDegrade]_vars

--------------------------------------------------------------------------

(* The circuit breaker on its own *)

InitBreaker == InitAllocOf(DefaultConfig) /\ InitIdle

NextBreaker == \E step \in BreakerSteps, fn_raises \in BOOLEAN : BreakerCall(step, fn_raises)

SpecBreaker == InitBreaker /\ [][NextBreaker]_vars

--------------------------------------------------------------------------

(* The budget-snapshot contract on its own *)

InitContracts == InitAllocOf(DefaultConfig) /\ InitIdle

NextContracts ==
    \E budgets \in SnapshotDicts, slas \in SnapshotSlas, known \in SnapshotKnown :
        ValidateBudgetCall(budgets, slas, known)

SpecContracts == InitContracts /\ [][NextContracts]_vars

--------------------------------------------------------------------------

(* A trajectory buffer of small capacity *)

InitBuffer ==
    /\ InitAllocOf(DefaultConfig)
    /\ InitPlanner
    /\ InitFilesOf([model_file |-> NoFile, sha_file |-> NoFile])
    /\ battery = 100
    /\ user_energy = 100
    /\ breaker = NewBreaker
    /\ call = NoProcessAction
    /\ calls = 0
    /\ mode = NewMode
    /\ degradation_mode = NewMode
    /\ loop = NoLoop
    /\ twin = NoTwin
    /\ ulast = NoUnitCall
    /\ \E capacity \in BufferCapacities :
         tbuf = [capacity |-> capacity, data |-> <<>>, added |-> <<>>,
                 ops |-> 0, evicted |-> FALSE]

NextBuffer ==
    \/ \E transition \in Transitions : BufferAddCall(transition)
    \/ BufferClearCall

SpecBuffer == InitBuffer /\ [][NextBuffer]_vars

--------------------------------------------------------------------------

(* run_loop on a fresh system, after at most one direct process_action call *)

InitLoop == \E cfg \in Configs : InitSystemOf(cfg, 100, 0)

NextLoop ==
    \/ \E t \in Clock : DirectStart("move_arm", t)
    \/ \E t \in Clock : DirectResume(t)
    \/ \E actions \in LoopActionLists : LoopStart(actions)
    \/ \E t \in Clock : LoopHead(t)
    \/ \E t \in Clock : LoopProcess(t)
    \/ \E t \in Clock : LoopResume(t)
    \/ \E t \in Clock : LoopTail(t)

SpecLoop == InitLoop /\ [][NextLoop]_vars

--------------------------------------------------------------------------

(* The system-scalars contract on its own *)

InitScalars == InitAllocOf(DefaultConfig) /\ InitIdle

NextScalars ==
    \E b \in ScalarValues, e \in ScalarValues, m \in ScalarModes,
       allow_negative_energy \in BOOLEAN :
        ValidateScalarsCall(b, e, m, allow_negative_energy)

SpecScalars == InitScalars /\ [][NextScalars]_vars

--------------------------------------------------------------------------

(* The ledgers over a long run of SLA checks and cycle ends *)

\* Bound on the calls of a long run.
MaxLedgerCalls == 12

\* the latency reported in a long run, above every SLA
LongRunLatencies == {100}

\* the amount a long run withdraws with top_up
LongRunTopUps == {0 - U(300)}

CalledInRun(rec) ==
    /\ ops < MaxLedgerCalls
    /\ ops' = ops + 1
    /\ prev' = last
    /\ last' = rec

\* check_sla(m, latency) in a long run
CheckSlaInRun(m, latency) ==
    /\ CalledInRun([op |-> "check_sla", module |-> m, latency |-> latency])
    /\ modules' = [modules EXCEPT ![m] = CheckSlaLedger(@, latency)]
    /\ UNCHANGED <<global_pool, usage_history, cache, cache_t, now>>
    /\ UNCHANGED nonAllocVars

\* modules["decoder"].top_up(amount) in a long run
TopUpInRun(amount) ==
    /\ CalledInRun([op |-> "top_up", module |-> "decoder", amount |-> amount])
    /\ modules' = [modules EXCEPT !["decoder"] = LedgerTopUp(@, amount)]
    /\ UNCHANGED <<global_pool, usage_history, cache, cache_t, now>>
    /\ UNCHANGED nonAllocVars

\* end_cycle() in a long run
EndCycleInRun ==
    /\ CalledInRun([op |-> "end_cycle"])
    /\ usage_history' = [n \in Names |-> DequeAppend(usage_history[n], modules[n].usage)]
    /\ modules' = EndCycleOf(modules)
    /\ UNCHANGED <<global_pool, cache, cache_t, now>>
    /\ UNCHANGED nonAllocVars

InitLongRun == InitAllocOf(DefaultConfig) /\ InitIdle

NextLongRun ==
    \/ \E m \in Names, l \in LongRunLatencies : CheckSlaInRun(m, l)
    \/ \E a \in LongRunTopUps : TopUpInRun(a)
    \/ EndCycleInRun

SpecLongRun == InitLongRun /\ [][NextLongRun]_vars

(* The equilibrium cache while one ledger is drawn on and topped up again *)

\* Bound on the calls made around the cache.
MaxCacheCalls == 5

CalledOnCache(rec) ==
    /\ ops < MaxCacheCalls
    /\ ops' = ops + 1
    /\ prev' = last
    /\ last' = rec

\* find_nash_equilibrium(), time.time() returning t
FindNashOnCache(t) ==
    LET f == FindNashEquilibrium(modules, usage_history, global_pool, cache, cache_t, t) IN
    /\ CalledOnCache(FindRecord("find", f, t))
    /\ now' = t
    /\ cache' = f.cache
    /\ cache_t' = f.cache_t
    /\ UNCHANGED <<global_pool, modules, usage_history>>
    /\ UNCHANGED nonAllocVars

\* modules[m].request(RequestAmount[m])
RequestOnCache(m) ==
    LET r == LedgerRequest(modules[m], RequestAmount[m]) IN
    /\ CalledOnCache([op |-> "request", module |-> m, ok |-> r.ok])
    /\ modules' = [modules EXCEPT ![m] = r.ledger]
    /\ UNCHANGED <<global_pool, usage_history, cache, cache_t, now>>
    /\ UNCHANGED nonAllocVars

\* the amounts topped up around the cache: the module's request amount, and
\* one below the rounding of the cache key (1/30 of a unit)
CacheTopUps(m) == {RequestAmount[m], Scale \div 30}

\* modules[m].top_up(amount)
TopUpOnCache(m, amount) ==
    /\ CalledOnCache([op |-> "top_up", module |-> m, amount |-> amount])
    /\ modules' = [modules EXCEPT ![m] = LedgerTopUp(@, amount)]
    /\ UNCHANGED <<global_pool, usage_history, cache, cache_t, now>>
    /\ UNCHANGED nonAllocVars

InitCache == InitAllocOf(DefaultConfig) /\ InitIdle

NextCache ==
    \/ \E t \in Clock : FindNashOnCache(t)
    \/ \E m \in {"decoder", "planner"} : RequestOnCache(m)
    \/ \E m \in {"decoder", "planner"} : \E a \in CacheTopUps(m) : TopUpOnCache(m, a)

SpecCache == InitCache /\ [][NextCache]_vars

(* The equilibrium of ledgers drawn down by whole requests *)

\* Bound on the calls made before and with the equilibrium.
MaxDrawCalls == 6

\* the amount of one request in a drawn-down run
DrawAmount == U(200)

CalledOnDraw(rec) ==
    /\ ops < MaxDrawCalls
    /\ ops' = ops + 1
    /\ prev' = last
    /\ last' = rec

\* modules[m].request(DrawAmount)
RequestOnDraw(m) ==
    LET r == LedgerRequest(modules[m], DrawAmount) IN
    /\ CalledOnDraw([op |-> "request", module |-> m, ok |-> r.ok])
    /\ modules' = [modules EXCEPT ![m] = r.ledger]
    /\ UNCHANGED <<global_pool, usage_history, cache, cache_t, now>>
    /\ UNCHANGED nonAllocVars

\* allocate_cycle()
AllocateOnDraw ==
    /\ CalledOnDraw([op |-> "allocate_cycle"])
    /\ modules' = AllocateCycleOf(modules, usage_history, global_pool)
    /\ UNCHANGED <<global_pool, usage_history, cache, cache_t, now>>
    /\ UNCHANGED nonAllocVars

\* negotiate_resources()
NegotiateOnDraw ==
    /\ CalledOnDraw([op |-> "negotiate"])
    /\ modules' = NegotiateResources(modules)
    /\ UNCHANGED <<global_pool, usage_history, cache, cache_t, now>>
    /\ UNCHANGED nonAllocVars

\* end_cycle()
EndCycleOnDraw ==
    /\ CalledOnDraw([op |-> "end_cycle"])
    /\ usage_history' = [n \in Names |-> DequeAppend(usage_history[n], modules[n].usage)]
    /\ modules' = EndCycleOf(modules)
    /\ UNCHANGED <<global_pool, cache, cache_t, now>>
    /\ UNCHANGED nonAllocVars

\* find_nash_equilibrium(), time.time() returning t
FindNashOnDraw(t) ==
    LET f == FindNashEquilibrium(modules, usage_history, global_pool, cache, cache_t, t) IN
    /\ CalledOnDraw(FindRecord("find", f, t))
    /\ now' = t
    /\ cache' = f.cache
    /\ cache_t' = f.cache_t
    /\ UNCHANGED <<global_pool, modules, usage_history>>
    /\ UNCHANGED nonAllocVars

InitDraw == InitAllocOf(DefaultConfig) /\ InitIdle

NextDraw ==
    \/ \E m \in Names : RequestOnDraw(m)
    \/ AllocateOnDraw
    \/ NegotiateOnDraw
    \/ EndCycleOnDraw
    \/ \E t \in Clock : FindNashOnDraw(t)

SpecDraw == InitDraw /\ [][NextDraw]_vars

(* The usage history over more cycles than it holds *)

\* modules[m].request(RequestAmount[m]) in a long run
RequestInRun(m) ==
    LET r == LedgerRequest(modules[m], RequestAmount[m]) IN
    /\ CalledInRun([op |-> "request", module |-> m, ok |-> r.ok])
    /\ modules' = [modules EXCEPT ![m] = r.ledger]
    /\ UNCHANGED <<global_pool, usage_history, cache, cache_t, now>>
    /\ UNCHANGED nonAllocVars

InitHistory == InitAllocOf(DefaultConfig) /\ InitIdle

NextHistory ==
    \/ \E m \in {"decoder", "actuator"} : RequestInRun(m)
    \/ EndCycleInRun

SpecHistory == InitHistory /\ [][NextHistory]_vars

(* Two planners over one working directory *)

InitTwin ==
    /\ InitAllocOf(DefaultConfig)
    /\ InitPlanner
    /\ InitFilesOf([model_file |-> NoFile, sha_file |-> NoFile])
    /\ battery = 100
    /\ user_energy = 100
    /\ breaker = NewBreaker
    /\ call = NoProcessAction
    /\ calls = 0
    /\ mode = NewMode
    /\ degradation_mode = NewMode
    /\ loop = NoLoop
    /\ twin = TwinsUnbuilt
    /\ tbuf = NoBuffer
    /\ ulast = NoUnitCall

NextTwin ==
    \/ \E i \in 1..2, seed \in TwinSeeds : TwinConstruct(i, seed)
    \/ \E i \in 1..2 : TwinDecide(i)
    \/ \E i \in 1..2, epochs \in EpochChoices, t \in Clock : TwinTrain(i, epochs, t)
    \/ TwinUnlink

SpecTwin == InitTwin /\ [][NextTwin]_vars

--------------------------------------------------------------------------
(* process_action called on a system, as the tests call it *)

InitSys ==
    \E cfg \in Configs, level \in {100, 20}, failures \in {0, BreakerThreshold - 1} :
        InitSystemOf(cfg, level, failures)

NextSys ==
    \/ \E action_name \in ActionNames, t \in Clock : ProcessActionStart(action_name, t)
    \/ \E t \in Clock : ProcessActionResume(t)

SpecSys == InitSys /\ [][NextSys]_vars

(* The persistence functions called directly *)

InitPersist ==
    /\ InitAllocOf(DefaultConfig)
    /\ InitPlanner
    /\ InitSysIdle
    /\ InitFilesOf([model_file |-> NoFile, sha_file |-> NoFile])

NextPersist ==
    \/ \E artifact \in ArtifactsToSave : SavePolicy(artifact)
    \/ LoadPolicy
    \/ \E how \in FlipKinds : FlipModel(how)
    \/ StaleDigest
    \/ \E name \in StateNames : \E obj \in StateObjects(name) : SaveStateCall(name, obj)
    \/ \E name \in StateNames : LoadStateCall(name)
    \/ \E name \in StateNames, how \in FlipKinds : FlipState(name, how)

SpecPersist == InitPersist /\ [][NextPersist]_vars

--------------------------------------------------------------------------
(* The ledger driven directly, with amounts of either sign *)

InitLedger == InitAlloc /\ InitIdle

NextLedger ==
    \/ \E m \in Names, a \in LedgerAmounts : Request(m, a)
    \/ \E m \in Names, a \in TopUpAmounts : TopUp(m, a)
    \/ \E m \in Names, l \in Latencies : CheckSla(m, l)
    \/ EndCycle

SpecLedger == InitLedger /\ [][NextLedger]_vars

(* The allocator as the orchestration loop and the tests drive it *)

NextAlloc ==
    \/ \E m \in Names : Request(m, RequestAmount[m])
    \/ \E m \in Names : TopUp(m, RequestAmount[m])
    \/ \E m \in Names, l \in Latencies : CheckSla(m, l)
    \/ AllocateCycle
    \/ Negotiate
    \/ \E t \in Clock : FindNash(t)
    \/ \E t \in Clock : ApplyEquilibrium(t)
    \/ EndCycle

InitAllocSpec == InitAlloc /\ InitIdle

SpecAlloc == InitAllocSpec /\ [][NextAlloc]_vars

--------------------------------------------------------------------------
(* Budget ledger and allocator properties *)

\* C1: request(amount) returns true, deducts amount from remaining and adds it
\* to usage if and only if remaining >= amount; a denied request changes
\* neither remaining nor usage; two consecutive successful requests a then b on
\* one ledger imply a + b <= remaining before the first.
C1_RequestContract ==
    /\ last.op = "request" =>
         LET b == last.before[last.module]
             a == modules[last.module]
         IN /\ last.ok <=> (b.budget_remaining >= last.amount)
            /\ last.ok => /\ a.budget_remaining = b.budget_remaining - last.amount
                          /\ a.usage = b.usage + last.amount
            /\ ~last.ok => /\ a.budget_remaining = b.budget_remaining
                           /\ a.usage = b.usage
    /\ (/\ last.op = "request" /\ prev.op = "request"
        /\ last.module = prev.module /\ last.ok /\ prev.ok)
         => prev.amount + last.amount <= prev.before[prev.module].budget_remaining

C1_Witness ==
    /\ last.op = "request" /\ prev.op = "request"
    /\ last.module = prev.module /\ last.ok /\ prev.ok
    /\ modules[last.module].budget_remaining = 0

\* C2: after end_cycle (penalize_cycle on every ledger), whatever state the
\* ledgers were in, every usage is 0 and every remaining is >= 0.
C2_PenalizeResets ==
    last.op = "end_cycle" =>
        \A n \in Names : modules[n].usage = 0 /\ modules[n].budget_remaining >= 0

C2_Witness ==
    /\ last.op = "end_cycle"
    /\ \E n \in Names : last.before[n].budget_remaining < 0
    /\ \E n \in Names : last.before[n].usage > 0

\* C3 as claimed: two consecutive find_nash_equilibrium calls less than the TTL
\* apart return the same mapping and the second makes no predict_next_usage call.
C3_Original ==
    (/\ prev.op = "find" /\ last.op = "find"
     /\ last.at - prev.at < CacheTtl)
      => (last.result = prev.result /\ last.predict_calls = 0)

\* C3 amended: two consecutive find_nash_equilibrium calls, the second made less
\* than the TTL after the cache timestamp (the time of the last fresh
\* computation, which a cache hit does not refresh), return the same mapping,
\* and the second makes no predict_next_usage call.
C3_CacheWithinTtl ==
    (/\ prev.op = "find" /\ last.op = "find"
     /\ last.at - prev.cache_t < CacheTtl)
      => (last.hit /\ last.result = prev.result /\ last.predict_calls = 0)

C3_Witness ==
    /\ prev.op = "find" /\ last.op = "find"
    /\ last.at > prev.at
    /\ last.at - prev.cache_t < CacheTtl
    /\ last.hit

\* C4: the mapping find_nash_equilibrium returns, freshly computed or cached,
\* has exactly the module names as keys and every value is >= 0.
C4_KeysNonNegative ==
    last.op \in {"find", "apply_eq"} =>
        /\ DOMAIN last.result = Names
        /\ \A n \in Names : last.result[n] >= 0

C4_Witness ==
    /\ last.op = "find" /\ last.hit
    /\ \E n \in Names : last.result[n] > 0
    /\ \E n \in Names : Len(modules[n].violation_history) > 0

--------------------------------------------------------------------------
(* Planner and persistence properties *)

\* C5 as claimed: the action decide_with_stability returns passes the
\* budget-feasibility precheck made for it in that call (cost <= battery and
\* 0.5 * cost <= energy), the default reject action 2 included.
C5_Original ==
    plast.op = "decide" => plast.gate_ok

\* C5 amended: when some candidate survives both gates, the action returned is
\* a surviving candidate and passed the budget-feasibility precheck made for
\* it in that call; when none survives, the default reject action 2 is
\* returned, whether or not its own precheck passed.
C5_GatedUnlessDefault ==
    plast.op = "decide" =>
        /\ plast.survived # {} => plast.action \in plast.survived /\ plast.gate_ok
        /\ plast.survived = {} => plast.action = RejectAction

C5_Witness ==
    /\ plast.op = "decide"
    /\ rl_enabled
    /\ plast.gate_failed # {}
    /\ plast.action \in plast.survived

\* C7: when the artifact found at construction fails digest verification or
\* cannot be read, construction does not raise, rl_enabled is false, and every
\* decision returns an action in {0, 1, 2} taken from the LQR and rule-based
\* candidates alone, the Q-table not being consulted.
C7_FailClosedOnCorrupt ==
    (pstage = "ready" /\ boot \in {"mismatch", "unreadable"}) =>
        /\ ~rl_enabled
        /\ plast.op = "construct" => ~plast.raised
        /\ plast.op = "decide" =>
               /\ plast.action \in Actions
               /\ plast.candidates = <<plast.action_lqr, DecideRuleBased(plast.state)>>
               /\ plast.action \in {plast.action_lqr, DecideRuleBased(plast.state),
                                    RejectAction}
               /\ ~plast.q_consulted

C7_Witness ==
    /\ boot = "mismatch"
    /\ plast.op = "decide"
    /\ plast.action \in {0, 1}
    /\ ~rl_enabled

\* C8 as claimed: when the artifact is missing at construction, rl_enabled is
\* false for the remainder of the process, as for a corrupt one.
C8_Original ==
    (pstage = "ready" /\ boot = "missing") => ~rl_enabled

\* C8 amended: when the model file is missing at construction, _load_model
\* returns before any load and rl_enabled stays true for the remainder of the
\* process, the planner starting from the zero table under version v0; a model
\* file that is present while its checksum sidecar is missing disables
\* reinforcement as a corrupt one does.
C8_MissingKeepsEnabled ==
    /\ (pstage = "ready" /\ boot = "missing") =>
           /\ rl_enabled
           /\ plast.op = "construct" =>
                  q_table = ZeroTable /\ rl_policy_version = VersionOf(0)
    /\ (pstage = "ready" /\ boot = "nosha") => ~rl_enabled

C8_Witness ==
    /\ boot = "missing"
    /\ plast.op = "train"
    /\ plast.ran
    /\ rl_updates > 0

\* C9: once rl_enabled is false, no decide_with_stability or train call sets
\* it again, and a train call changes no Q-table entry, leaves rl_updates and
\* the policy version as they were and writes no artifact.
C9_DisabledStaysDisabled ==
    [][(pstage = "ready" /\ ~rl_enabled) =>
          /\ ~rl_enabled'
          /\ q_table' = q_table
          /\ rl_updates' = rl_updates
          /\ rl_policy_version' = rl_policy_version
          /\ rl_buffer' = rl_buffer
          /\ model_file' = model_file
          /\ sha_file' = sha_file]_vars

C9_Witness ==
    /\ pstage = "ready"
    /\ ~rl_enabled
    /\ plast.op = "train"
    /\ rl_decisions > 0

\* C10: a load that follows a save of the same files returns what was saved
\* (for the policy artifact: the same weights, policy_version and
\* hyperparams; for the state sink: the same object), and a load raises
\* whenever the stored payload does not match the stored digest.
C10_DigestCheckedRoundTrip ==
    /\ io_last.op = "load_policy" =>
           /\ ~io_last.digest_ok => io_last.raised
           /\ io_last.expect # <<>> =>
                  /\ ~io_last.raised
                  /\ io_last.returned[1].weights = io_last.expect[1].weights
                  /\ io_last.returned[1].policy_version = io_last.expect[1].policy_version
                  /\ io_last.returned[1].hyperparams = io_last.expect[1].hyperparams
    /\ io_last.op = "load_state" =>
           /\ ~io_last.digest_ok => io_last.raised
           /\ io_last.expect # <<>> =>
                  /\ ~io_last.raised
                  /\ io_last.returned[1] = io_last.expect[1]

C10_Witness ==
    /\ io_last.op = "load_policy"
    /\ ~io_last.raised
    /\ io_last.expect # <<>>
    /\ io_last.returned[1].policy_version = VersionOf(3)
    /\ \E n \in StateNames : saved_state[n] # <<>>

\* C6: in a process_action call the actuator's perform is reached only after
\* the decoder's, the planner's and the actuator's budget requests were each
\* granted in that call, with the decoded intent equal to the requested action
\* and a planner decision of 0 or 1; a denied request is the last thing the
\* call does: no sensor read, decision, later request or perform follows it.
C6_PerformOnlyAfterGrants ==
    /\ \A i \in 1..Len(call.log) :
         call.log[i].ev = "perform" =>
           /\ \A m \in Names :
                \E j \in 1..(i - 1) : call.log[j] = Ev("request", m, TRUE)
           /\ call.intent = call.action_name
           /\ call.a \in {0, 1}
    /\ \A i \in 1..Len(call.log) :
         (call.log[i].ev = "request" /\ ~call.log[i].ok) => i = Len(call.log)

\* a call that performed the action and returned, on a system whose ledgers
\* an earlier call had already drawn on
C6_Witness ==
    /\ call.pc = "done"
    /\ calls = 2
    /\ \E i \in 1..Len(call.log) : call.log[i] = Ev("perform", "actuator", TRUE)

C12_SafeAtThresholds ==
    /\ mode \in DegradationModes
    /\ degradation_mode \in DegradationModes
    /\ ulast.op = "assess" =>
         /\ mode = ulast.returned
         /\ (ulast.battery <= ulast.thresholds[1] \/ ulast.energy <= ulast.thresholds[2])
              => mode = "SAFE"

\* battery 10 and energy 15 under thresholds (10, 20), the budgets healthy and
\* the mode REDUCED before the call
C12_Witness ==
    /\ ulast.op = "assess"
    /\ ulast.battery = 10 /\ ulast.energy = 15 /\ ulast.thresholds = <<10, 20>>
    /\ ulast.healthy
    /\ ulast.prev_mode = "REDUCED"
    /\ mode = "SAFE"

\* C13: the breaker is closed while fewer than failure_threshold wrapped calls
\* have raised since the last one that returned, and is open right after the
\* call whose failure brings that number to failure_threshold; a call made
\* while the breaker is open and its cooldown has not elapsed raises without
\* invoking the wrapped function and leaves the breaker, its failure counter
\* included, as it was.
C13_OpensAtThreshold ==
    /\ SinceSuccess < BreakerThreshold => ~breaker.open
    /\ (ulast.op = "call" /\ ulast.invoked /\ ulast.since_success = BreakerThreshold)
         => (breaker.open /\ breaker.opened_at = ulast.t)
    /\ (ulast.op = "call" /\ ulast.before.open
          /\ ulast.t - ulast.before.opened_at < BreakerResetTimeout)
         => (~ulast.invoked /\ ulast.raised /\ breaker = ulast.before)

\* a call one tick before the end of the cooldown of a breaker that five
\* failures in a row had opened
C13_Witness ==
    /\ ulast.op = "call"
    /\ ulast.before.open
    /\ ulast.before.failures = BreakerThreshold
    /\ ulast.t - ulast.before.opened_at = BreakerResetTimeout - 1
    /\ ~ulast.invoked
    /\ breaker.open

\* C14 as claimed: a trial call let through once the cooldown has elapsed
\* resets the failure state only if it succeeds; after a trial call that
\* raised, the breaker is still open and its failure counter not cleared.
C14_TrialFailureKeepsOpen ==
    (ulast.op = "call" /\ ulast.trial /\ ulast.fn_raises)
        => (breaker.open /\ breaker.failures >= ulast.before.failures)

\* C20: validate_budget_snapshot raises exactly when some budget is
\* non-finite or negative, or some SLA is non-finite or <= 0, or known
\* modules are given and one of them has no budget entry; the call changes
\* neither the ledgers nor anything else of the system.
C20_RaisesExactly ==
    ulast.op = "validate_budget" =>
      /\ ulast.raised <=>
           \/ \E i \in 1..Len(ulast.budgets) :
                LET v == ulast.budgets[i][2]
                IN v \in {NaN, PosInf, NegInf} \/ (v[1] = "num" /\ v[2] < 0)
           \/ \E i \in 1..Len(ulast.slas) :
                LET v == ulast.slas[i][2]
                IN v \in {NaN, PosInf, NegInf} \/ (v[1] = "num" /\ v[2] <= 0)
           \/ /\ ulast.known # NoKnownModules
              /\ \E m \in ulast.known[2] :
                   \A i \in 1..Len(ulast.budgets) : ulast.budgets[i][1] # m
      /\ modules = [n \in Names |->
                      NewLedger(DefaultConfig.budgets[n], DefaultConfig.slas[n])]

\* a snapshot with a zero budget and positive SLAs for the known modules,
\* which passes
C20_Witness ==
    /\ ulast.op = "validate_budget"
    /\ ulast.budgets = <<<<"decoder", Num(10)>>, <<"planner", Num(0)>>>>
    /\ ulast.slas = <<<<"decoder", Num(10)>>, <<"planner", Num(10)>>>>
    /\ ulast.known = KnownModules({"decoder", "planner"})
    /\ ~ulast.raised

\* C19: after any sequence of add and clear the buffer holds at most
\* capacity transitions, and they are exactly the last min(n, capacity) of
\* the n transitions added since the last clear, oldest first; all() and
\* iter_deterministic() give that sequence.
C19_MostRecentInOrder ==
    LET n == Len(tbuf.added)
        k == IF n < tbuf.capacity THEN n ELSE tbuf.capacity
        recent == [j \in 1..k |-> tbuf.added[n - k + j]]
    IN /\ Len(tbuf.data) <= tbuf.capacity
       /\ tbuf.data = recent
       /\ All(tbuf.data) = recent
       /\ IterDeterministic(tbuf.data) = recent

\* capacity 2 and t1, t2, t3 added in turn: the buffer holds t2, t3
C19_Witness ==
    /\ tbuf.capacity = 2
    /\ tbuf.added = <<"t1", "t2", "t3">>
    /\ tbuf.evicted
    /\ tbuf.data = <<"t2", "t3">>


\* C15: a sensory or actuator call that raises while the breaker's failure
\* count is below its threshold does not end run_loop: an exception leaves
\* run_loop from process_action only when the breaker is open.
C15_TransientFailureSurvived ==
    (loop.pc = "raised" /\ loop.error = "process_action") => breaker.open

\* C16: in every run_loop cycle the watchdog is reset before anything else
\* of the cycle and checked right after the snapshot is saved; the check
\* raises exactly when more than watchdog_timeout_s passed since the reset,
\* and then run_loop has ended with that error and does nothing more.
C16_WatchdogResetFirstCheckedLast ==
    loop.pc # "idle" =>
      LET log == loop.log
          n == Len(log)
      IN /\ \A j \in 1..n :
              /\ (j = 1 \/ log[j - 1].cycle # log[j].cycle) <=> log[j].ev = "reset"
              /\ log[j].ev = "check" =>
                   /\ j > 1
                   /\ log[j - 1] = LoopEv(log[j].cycle, "save")
                   /\ j < n => log[j + 1].cycle = log[j].cycle + 1
         /\ (n > 0 /\ log[n].ev = "check") =>
              ((now - loop.wd_last > WatchdogTimeout)
                 <=> (loop.pc = "raised" /\ loop.error = "watchdog"))
         /\ (loop.pc = "raised" /\ loop.error = "watchdog") =>
              (n > 0 /\ log[n] = LoopEv(loop.i, "check"))

\* a cycle that took more than the timeout: run_loop raised at its check
C16_Witness ==
    /\ loop.pc = "raised"
    /\ loop.error = "watchdog"
    /\ now - loop.wd_last > WatchdogTimeout
    /\ loop.log[Len(loop.log)] = LoopEv(loop.i, "check")
    /\ loop.log[Len(loop.log) - 1] = LoopEv(loop.i, "save")

\* the phases of a cycle, numbered in the order the specification gives
\* them; the watchdog steps and the budget requests belong to no phase
SpecifiedPhase(ev) ==
    CASE ev = "allocate" -> 1
      [] ev = "validate" -> 2
      [] ev \in {"negotiate", "equilibrium"} -> 3
      [] ev \in {"sensor", "monitor"} -> 4
      [] ev = "decode" -> 5
      [] ev = "decide" -> 6
      [] ev = "perform" -> 7
      [] ev = "end_cycle" -> 8
      [] ev \in {"assess", "apply_mode"} -> 9
      [] ev = "save" -> 10
      [] OTHER -> 0

\* the phases numbered in the order run_loop goes through them
ObservedPhase(ev) ==
    CASE ev = "allocate" -> 1
      [] ev = "negotiate" -> 2
      [] ev = "validate" -> 3
      [] ev = "equilibrium" -> 4
      [] ev = "sensor" -> 5
      [] ev = "decode" -> 6
      [] ev = "decide" -> 7
      [] ev = "perform" -> 8
      [] ev = "monitor" -> 9
      [] ev = "end_cycle" -> 10
      [] ev \in {"assess", "apply_mode"} -> 11
      [] ev = "save" -> 12
      [] OTHER -> 0

\* nothing of a later cycle is logged before the earlier cycle's save
CyclesInTurn(log) ==
    \A k \in 1..Len(log) :
      /\ \A j \in 1..(k - 1) : log[j].cycle <= log[k].cycle
      /\ log[k].cycle > 1 =>
           \E j \in 1..(k - 1) : log[j] = LoopEv(log[k].cycle - 1, "save")

\* C17 as stated: within a cycle allocation, validation,
\* negotiation/equilibrium, sensing, decoding, planning, acting, end_cycle,
\* assessment and persistence occur in that order, and no phase of cycle
\* N+1 starts before cycle N's snapshot is saved.
C17_Original ==
    loop.pc # "idle" =>
      /\ \A j, k \in 1..Len(loop.log) :
           (/\ j < k
            /\ loop.log[j].cycle = loop.log[k].cycle
            /\ SpecifiedPhase(loop.log[j].ev) > 0
            /\ SpecifiedPhase(loop.log[k].ev) > 0)
           => SpecifiedPhase(loop.log[j].ev) <= SpecifiedPhase(loop.log[k].ev)
      /\ CyclesInTurn(loop.log)

\* C17 amended: within a cycle the phases occur in the order allocation,
\* negotiation, budget-snapshot validation, equilibrium application,
\* sensing, decoding, planning, acting, resource monitoring, end_cycle,
\* assessment, persistence, each at most once, and no phase of cycle N+1
\* starts before cycle N's snapshot is saved.
C17_PhasesInCodeOrder ==
    loop.pc # "idle" =>
      /\ \A j, k \in 1..Len(loop.log) :
           (/\ j < k
            /\ loop.log[j].cycle = loop.log[k].cycle
            /\ ObservedPhase(loop.log[j].ev) > 0
            /\ ObservedPhase(loop.log[k].ev) > 0)
           => \/ ObservedPhase(loop.log[j].ev) < ObservedPhase(loop.log[k].ev)
              \/ /\ loop.log[j].ev = "assess"
                 /\ loop.log[k].ev = "apply_mode"
      /\ CyclesInTurn(loop.log)

\* two cycles run to the end, the first through every phase
C17_Witness ==
    /\ loop.pc = "done"
    /\ loop.i = 2
    /\ \A ev \in {"allocate", "negotiate", "validate", "equilibrium", "sensor",
                  "decode", "decide", "perform", "monitor", "end_cycle", "assess",
                  "apply_mode", "save"} :
         \E j \in 1..Len(loop.log) : loop.log[j] = LoopEv(1, ev)
    /\ \E j \in 1..Len(loop.log) : loop.log[j] = LoopEv(2, "save")

\* the steps that change a ledger, the allocator state or a system scalar
LedgerSteps == {"allocate", "negotiate", "equilibrium", "end_cycle"}

C21_ScalarsRaiseExactly ==
    ulast.op = "validate_scalars" =>
      LET nonfinite == {NaN, PosInf, NegInf}
          b == ulast.battery
          e == ulast.energy
      IN ulast.raised <=>
           \/ b \in nonfinite
           \/ b[2] < 0
           \/ b[2] > 100
           \/ e \in nonfinite
           \/ e[2] > 100
           \/ (e[2] < 0 /\ ~ulast.allow_negative_energy)
           \/ ulast.mode \notin {"FULL", "REDUCED", "MINIMAL", "SAFE"}

\* a negative energy accepted under the relaxation
C21_Witness ==
    /\ ulast.op = "validate_scalars"
    /\ ulast.battery = Num(100)
    /\ ulast.energy = Num(0 - 1)
    /\ ulast.allow_negative_energy
    /\ ulast.mode = "MINIMAL"
    /\ ~ulast.raised

\* C22: in every state run_loop reaches, whatever the sensor delivers within
\* its contract, battery and user energy lie in [0, 100].
C22_ScalarsInRange ==
    /\ 0 <= battery
    /\ battery <= 100
    /\ 0 <= user_energy
    /\ user_energy <= 100

\* inside run_loop a reading whose raw energy is 1600 was stored as 100 and
\* the battery was drained
C22_Witness ==
    /\ loop.pc = "tail"
    /\ call.log[Len(call.log)] = Ev("monitor", "system", TRUE)
    /\ call.reading = <<200, 10>>
    /\ DecodeEnergyUnclipped(call.reading) > 100
    /\ user_energy = 100
    /\ battery < 100

\* C23: on a fresh system driven only through run_loop, the equilibrium
\* applied in each cycle leaves every ledger with remaining 0, the decoder's
\* request is denied in every cycle, and neither the sensor, the planner nor
\* the actuator is invoked.
C23_FreshLoopStarves ==
    (loop.pc # "idle" /\ loop.direct = 0) =>
      /\ loop.pc = "process" => \A n \in Names : modules[n].budget_remaining = 0
      /\ \A n \in Names : modules[n].usage = 0
      /\ loop.pc \in {"tail", "done"} => call.log = <<Ev("request", "decoder", FALSE)>>
      /\ \A j \in 1..Len(loop.log) :
           loop.log[j].ev \notin {"sensor", "decode", "decide", "perform", "monitor"}
      /\ loop.pc \notin {"performing"}
      /\ ~(loop.pc = "raised" /\ loop.error = "process_action")
      /\ rl_decisions = 0

\* two cycles of a fresh system run to the end, the decoder denied in both
C23_Witness ==
    /\ loop.pc = "done"
    /\ loop.direct = 0
    /\ loop.i = 2
    /\ calls = 2
    /\ call.log = <<Ev("request", "decoder", FALSE)>>
    /\ \A c \in 1..2 : \E j \in 1..Len(loop.log) : loop.log[j] = LoopEv(c, "request")

\* C24: under request, top_up, check_sla, allocate_cycle,
\* negotiate_resources, the application of an equilibrium and end_cycle with
\* non-negative amounts, every ledger's remaining is >= 0 in every state, so
\* end_cycle never finds a ledger overspent: it appends no violation ratio
\* and leaves remaining alone.
C24_RemainingNeverNegative ==
    /\ \A n \in Names : modules[n].budget_remaining >= 0
    /\ last.op = "end_cycle" =>
         \A n \in Names :
           /\ last.before[n].budget_remaining >= 0
           /\ modules[n].violation_history = last.before[n].violation_history
           /\ modules[n].budget_remaining = last.before[n].budget_remaining

\* an SLA penalty larger than what was left floored a ledger at 0, and the
\* cycle ended with it there
C24_Witness ==
    /\ last.op = "end_cycle"
    /\ prev.op = "check_sla"
    /\ prev.before[prev.module].budget_remaining > 0
    /\ prev.before[prev.module].budget_remaining
         < (prev.before[prev.module].penalty_rate
              * prev.before[prev.module].initial_budget) \div RatioScale
    /\ modules[prev.module].budget_remaining = 0

--------------------------------------------------------------------------
(* The planner's gates and its fallback count *)

\* the candidate a of the recorded decision was turned away: the budget
\* precheck failed under the noise drawn for it, or the analyzer reported the
\* transition under the cost drawn for it as not decreasing V
C25_Rejected(a) ==
    \/ ~BudgetGate(plast.state, a, plast.gate_noise[a])
    \/ DeltaV(plast.state,
              NextState(plast.state, CostOf(a, plast.cost_noise[a]))) >= 0

\* C25: decide_with_stability returns an action in {0, 1, 2}, and returns the
\* reject action 2 whenever every distinct candidate is rejected by the budget
\* gate or by the stability gate.
C25_RejectWhenAllRejected ==
    plast.op = "decide" =>
        /\ plast.action \in {0, 1, 2}
        /\ (\A i \in 1..Len(plast.candidates) : C25_Rejected(plast.candidates[i]))
               => plast.action = RejectAction

C25_Witness ==
    /\ plast.op = "decide"
    /\ \A i \in 1..Len(plast.candidates) : C25_Rejected(plast.candidates[i])
    /\ \E i \in 1..Len(plast.candidates) :
           /\ plast.candidates[i] # RejectAction
           /\ BudgetGate(plast.state, plast.candidates[i],
                         plast.gate_noise[plast.candidates[i]])
    /\ plast.action = RejectAction

\* C26: a decide_with_stability call increments the fallback counter exactly
\* when no candidate survived both gates; a call in which a candidate survived
\* and was returned counts no fallback, whatever action that candidate is.
C26_FallbackIffNoneSurvived ==
    plast.op = "decide" =>
        /\ plast.fallback = 1 <=> plast.survived = {}
        /\ rl_fallbacks <= rl_decisions
        /\ (plast.survived # {} /\ rl_decisions = 1) => rl_fallbacks = 0

--------------------------------------------------------------------------
(* Penalty escalation and the violation history *)

\* ledger m ended the recorded cycle overspent with the mean of its last three
\* violation ratios above 0.5
C27_Escalates(m) ==
    /\ last.before[m].budget_remaining < 0
    /\ Len(modules[m].violation_history) >= 3
    /\ 2 * SumLast3(modules[m].violation_history) > 3 * RatioScale

\* C27: when a ledger ends a cycle overspent and the mean of its last three
\* violation ratios exceeds 0.5, its penalty_rate is multiplied by 1.5 (and
\* that larger rate stays in effect afterwards).
C27_EscalationPersists ==
    last.op = "end_cycle" =>
        \A m \in Names :
            C27_Escalates(m) =>
                2 * modules[m].penalty_rate = 3 * last.before[m].penalty_rate

\* C28: every ledger's violation_history is bounded: after any number of
\* check_sla and penalize_cycle calls its length never exceeds a fixed bound
\* (here the bound of the usage history kept beside it), older ratios being
\* dropped and the most recent kept last.
C28_ViolationHistoryBounded ==
    \A m \in Names : Len(modules[m].violation_history) <= HistoryMaxLen

--------------------------------------------------------------------------
(* The equilibrium cache *)

\* C29: find_nash_equilibrium never returns a cached mapping that was computed
\* more than the TTL before the call, whatever calls and ledger changes came
\* between (changes that bring the ledgers back to an earlier key included).
C29_HitNotOlderThanTtl ==
    (last.op = "find" /\ last.hit) => last.at - last.computed_at <= CacheTtl

\* C30: whenever find_nash_equilibrium answers from its cache, the mapping
\* returned equals what a fresh fixed-point computation on the current ledgers,
\* usage history and violation counts would return.
C30_HitEqualsFresh ==
    (last.op = "find" /\ last.hit) =>
        last.result = NashPass(modules, usage_history, global_pool)

--------------------------------------------------------------------------
(* Several process_action coroutines on one system *)

\* number of process_action coroutines run concurrently on the event loop
MaxTasks == 2

Tasks == 1..MaxTasks

\* what the devices and the estimators deliver to the concurrent coroutines
TaskInputs ==
    [sensor_ok |-> BOOLEAN, intents |-> {"move_arm", "stop"},
     latencies |-> SysLatencies, lqr |-> {0}, noise |-> {0},
     energy |-> {<<25, 5>>}, drained |-> {Depletion(1)}]

\* the frame of coroutine k replaced by c; `call` holds one frame for each coroutine
SetTask(k, c) == call' = [call EXCEPT ![k] = c]

\* the asyncio.Lock of monitor_resources is held by some coroutine
ResourceLockHeld == \E j \in Tasks : call[j].pc = "locked"

\* process_action(action_name) entered by coroutine k, up to its return or to
\* `await self.circuit_breaker.call(self.n1.get_neural_spikes)`
TaskStart(k, action_name) ==
    /\ call[k].pc = "idle"
    /\ calls' = calls + 1
    /\ LET d == LedgerRequest(modules["decoder"], RequestAmount["decoder"])
           c == [NoProcessAction EXCEPT !.action_name = action_name,
                                        !.log = <<Ev("request", "decoder", d.ok)>>]
       IN /\ modules' = [modules EXCEPT !["decoder"] = d.ledger]
          /\ SetTask(k, [c EXCEPT !.pc = IF Denied(d.ok) THEN "done" ELSE "sensing"])
    /\ UNCHANGED <<global_pool, usage_history, cache, cache_t, now, last, prev, ops>>
    /\ UNCHANGED <<plannerVars, fileVars, battery, user_energy, breaker, unitVars>>

\* coroutine k resumed in the breaker's call of get_neural_spikes, up to
\* `await self.decoder.decode_intent(firing)`
TaskSense(k, t) ==
    /\ call[k].pc = "sensing"
    /\ now' = t
    /\ LET adm == BreakerAdmit(breaker, t)
       IN IF ~adm.admitted
          THEN /\ breaker' = breaker
               /\ SetTask(k, [call[k] EXCEPT !.pc = "raised"])
          ELSE \E sensor_ok \in TaskInputs.sensor_ok :
               IF ~sensor_ok
               THEN /\ breaker' = BreakerFailure(adm.breaker, t)
                    /\ SetTask(k, [call[k] EXCEPT !.pc = "raised"])
               ELSE /\ breaker' = BreakerSuccess(adm.breaker)
                    /\ SetTask(k, [call[k] EXCEPT !.pc = "decoding"])
    /\ UNCHANGED <<global_pool, modules, usage_history, cache, cache_t, last, prev, ops>>
    /\ UNCHANGED <<plannerVars, fileVars, battery, user_energy, calls, unitVars>>

\* coroutine k left before the planner decided
TaskLeaveEarly(k, ms, c) ==
    /\ modules' = ms
    /\ SetTask(k, c)
    /\ UNCHANGED <<rl_gate_rejections, rl_fallbacks, rl_decisions, plast>>

\* coroutine k left after decide_with_stability returned r
TaskLeaveDecided(k, ms, c, action_lqr, gn, r) ==
    /\ modules' = ms
    /\ SetTask(k, c)
    /\ rl_decisions' = rl_decisions + 1
    /\ rl_gate_rejections' = rl_gate_rejections + r.rejections
    /\ rl_fallbacks' = rl_fallbacks + r.fallback
    /\ plast' = DecisionRecord(HalfUnits(<<battery, user_energy>>), action_lqr, gn, gn, r)

\* coroutine k resumed with the decoded intent: the decoder SLA check, the
\* planner stage and the actuator request, up to its return or to
\* `await self.circuit_breaker.call(self.actuator.perform, ...)`
TaskDecide(k) ==
    /\ call[k].pc = "decoding"
    /\ \E intent \in TaskInputs.intents, dec_ms \in TaskInputs.latencies :
       LET c2 == [call[k] EXCEPT !.intent = intent]
           ms2 == [modules EXCEPT !["decoder"] = CheckSlaLedger(@, dec_ms)]
           p == LedgerRequest(ms2["planner"], RequestAmount["planner"])
           ms3 == [ms2 EXCEPT !["planner"] = p.ledger]
           log3 == Append(c2.log, Ev("request", "planner", p.ok))
       IN
       IF intent # c2.action_name
       THEN TaskLeaveEarly(k, ms2, [c2 EXCEPT !.pc = "done"])
       ELSE IF Denied(p.ok)
       THEN TaskLeaveEarly(k, ms3, [c2 EXCEPT !.pc = "done", !.log = log3])
       ELSE \E action_lqr \in TaskInputs.lqr, n \in TaskInputs.noise,
               plan_ms \in TaskInputs.latencies :
            \E r \in {DecideWithStability(HalfUnits(<<battery, user_energy>>),
                                          rl_enabled, q_table, action_lqr,
                                          [x \in Actions |-> n], [x \in Actions |-> n])} :
       LET gn == [x \in Actions |-> n]
           ms4 == [ms3 EXCEPT !["planner"] = CheckSlaLedger(@, plan_ms)]
           c4 == [c2 EXCEPT !.a = r.action, !.log = log3]
           ac == LedgerRequest(ms4["actuator"], RequestAmount["actuator"])
           ms5 == [ms4 EXCEPT !["actuator"] = ac.ledger]
           log5 == Append(log3, Ev("request", "actuator", ac.ok))
       IN
       IF r.action \notin {0, 1}
       THEN TaskLeaveDecided(k, ms4, [c4 EXCEPT !.pc = "done"], action_lqr, gn, r)
       ELSE TaskLeaveDecided(k, ms5,
                             [c4 EXCEPT !.pc = IF Denied(ac.ok) THEN "done" ELSE "acting",
                                        !.log = log5],
                             action_lqr, gn, r)
    /\ UNCHANGED <<global_pool, usage_history, cache, cache_t, now, last, prev, ops>>
    /\ UNCHANGED <<pstage, boot, rl_enabled, q_table, rl_buffer, rl_last_td_error,
                   rl_updates, rl_policy_version, trains>>
    /\ UNCHANGED <<fileVars, battery, user_energy, breaker, calls, unitVars>>

\* coroutine k resumed in the breaker's call of actuator.perform, up to the
\* exception that ends it or to the sleep inside perform
TaskPerform(k, t) ==
    /\ call[k].pc = "acting"
    /\ now' = t
    /\ LET adm == BreakerAdmit(breaker, t)
       IN IF ~adm.admitted
          THEN /\ breaker' = breaker
               /\ SetTask(k, [call[k] EXCEPT !.pc = "raised"])
          ELSE IF PerformRejects(call[k].action_name)
          THEN /\ breaker' = BreakerFailure(adm.breaker, t)
               /\ SetTask(k, [call[k] EXCEPT !.pc = "raised"])
          ELSE /\ breaker' = adm.breaker
               /\ SetTask(k, [call[k] EXCEPT !.pc = "performing"])
    /\ UNCHANGED <<global_pool, modules, usage_history, cache, cache_t, last, prev, ops>>
    /\ UNCHANGED <<plannerVars, fileVars, battery, user_energy, calls, unitVars>>

\* coroutine k resumed at the end of perform's sleep: the actuator SLA check,
\* up to `await self.monitor_resources()` waiting for the resource lock
TaskPerformed(k) ==
    /\ call[k].pc = "performing"
    /\ \E act_ms \in TaskInputs.latencies :
          modules' = [modules EXCEPT !["actuator"] = CheckSlaLedger(@, act_ms)]
    /\ breaker' = BreakerSuccess(breaker)
    /\ SetTask(k, [call[k] EXCEPT !.pc = "monitoring"])
    /\ UNCHANGED <<global_pool, usage_history, cache, cache_t, now, last, prev, ops>>
    /\ UNCHANGED <<plannerVars, fileVars, battery, user_energy, calls, unitVars>>

\* `async with self.resource_lock` entered by coroutine k, up to the await of
\* the breaker's call inside it
TaskLock(k) ==
    /\ call[k].pc = "monitoring"
    /\ ~ResourceLockHeld
    /\ SetTask(k, [call[k] EXCEPT !.pc = "locked"])
    /\ UNCHANGED <<allocVars, plannerVars, fileVars, battery, user_energy, breaker,
                   calls, unitVars>>

\* the body of monitor_resources run by coroutine k, the lock released at its
\* end on every path
TaskMonitor(k, t) ==
    /\ call[k].pc = "locked"
    /\ now' = t
    /\ \E sensor_ok \in TaskInputs.sensor_ok, energy \in TaskInputs.energy,
          drained \in TaskInputs.drained :
       LET adm == BreakerAdmit(breaker, t)
           valid == ValidateSystemScalars(Num(Max(0, battery - drained)),
                                          Num(DecodeEnergy(energy)),
                                          degradation_mode, FALSE) = "ok"
       IN IF ~adm.admitted
          THEN /\ breaker' = breaker
               /\ SetTask(k, [call[k] EXCEPT !.pc = "raised"])
               /\ UNCHANGED <<battery, user_energy>>
          ELSE IF ~sensor_ok
          THEN /\ breaker' = BreakerFailure(adm.breaker, t)
               /\ SetTask(k, [call[k] EXCEPT !.pc = "raised"])
               /\ UNCHANGED <<battery, user_energy>>
          ELSE /\ breaker' = BreakerSuccess(adm.breaker)
               /\ user_energy' = DecodeEnergy(energy)
               /\ battery' = Max(0, battery - drained)
               /\ SetTask(k, [call[k] EXCEPT !.pc = IF valid THEN "done" ELSE "raised",
                                             !.reading = energy])
    /\ UNCHANGED <<global_pool, modules, usage_history, cache, cache_t, last, prev, ops>>
    /\ UNCHANGED <<plannerVars, fileVars, calls, unitVars>>

\* a fresh system of either configuration, every coroutine created and none
\* yet run
InitTasks ==
    /\ \E cfg \in Configs : InitSystemPartsOf(cfg, 100, 0)
    /\ call = [k \in Tasks |-> NoProcessAction]

NextTasks ==
    \/ \E k \in Tasks : TaskStart(k, "move_arm")
    \/ \E k \in Tasks, t \in Clock : TaskSense(k, t)
    \/ \E k \in Tasks : TaskDecide(k)
    \/ \E k \in Tasks, t \in Clock : TaskPerform(k, t)
    \/ \E k \in Tasks : TaskPerformed(k)
    \/ \E k \in Tasks : TaskLock(k)
    \/ \E k \in Tasks, t \in Clock : TaskMonitor(k, t)

SpecTasks == InitTasks /\ [][NextTasks]_vars

--------------------------------------------------------------------------
(* The auction, the negotiation and the equilibrium *)

\* position of a module in the dict order
C31_Index(n) == CHOOSE i \in 1..Len(ModuleOrder) : ModuleOrder[i] = n

\* the ledgers the auction pass of the recorded allocate_cycle started from
C31_AtAuction == PredictiveTopUp(last.before, usage_history, global_pool, 1)

\* a is served before b: higher score, or equal score and earlier in dict order
C31_ServedBefore(a, b) ==
    \/ ScoreGT(C31_AtAuction, a, b)
    \/ (~ScoreGT(C31_AtAuction, b, a) /\ C31_Index(a) < C31_Index(b))

C31_Amount(n) == C31_AtAuction[n].initial_budget \div 10

\* what the auction pass granted to n
C31_Granted(n) == modules[n].budget_remaining - C31_AtAuction[n].budget_remaining

\* the pool left when n's turn comes
C31_PoolLeft(n) ==
    Max(0, global_pool
           - SeqSum([i \in 1..Len(ModuleOrder) |->
                       IF C31_ServedBefore(ModuleOrder[i], n)
                       THEN C31_Amount(ModuleOrder[i]) ELSE 0]))

\* C31: the auction pass of allocate_cycle serves the modules by descending
\* score = priority x urgency, equal scores in their original order; each
\* served module is topped up by min(0.10 x initial_budget, pool left), serving
\* stops when the pool is exhausted, and the total granted in one pass never
\* exceeds global_pool.
C31_AuctionByScore ==
    last.op = "allocate_cycle" =>
        /\ \A n \in Names : C31_Granted(n) = Min(C31_Amount(n), C31_PoolLeft(n))
        /\ SeqSum([i \in 1..Len(ModuleOrder) |-> C31_Granted(ModuleOrder[i])])
               <= global_pool

C31_Witness ==
    /\ last.op = "allocate_cycle"
    /\ C31_Granted("decoder") = 0
    /\ C31_Granted("actuator") > 0
    /\ C31_Granted("actuator") < C31_Amount("actuator")
    /\ C31_ServedBefore("actuator", "decoder")

\* the surplus and deficit tests of the recorded negotiate_resources call, on
\* the ledgers it started from
C32_IsDonor(n) ==
    2 * last.before[n].budget_remaining > 3 * Max(U(1), last.before[n].usage)

C32_Surplus(n) == last.before[n].budget_remaining - last.before[n].usage

C32_IsDeficit(n) == 5 * last.before[n].budget_remaining < last.before[n].initial_budget

C32_Needed(n) == last.before[n].initial_budget \div 5 - last.before[n].budget_remaining

\* donor d's give to r would exceed the threshold of 10
C32_Qualifies(d, r) ==
    /\ C32_IsDonor(d)
    /\ C32_IsDeficit(r)
    /\ Min(C32_Surplus(d), C32_Needed(r)) > U(10)

\* r is the first deficit module in encounter order that qualifies for d
C32_Target(d, r) ==
    /\ C32_Qualifies(d, r)
    /\ \A q \in Names : C31_Index(q) < C31_Index(r) => ~C32_Qualifies(d, q)

\* what module n received less what it gave, by the rule of the claim
C32_Net(n) ==
    SeqSum([i \in 1..Len(ModuleOrder) |->
              IF C32_Target(ModuleOrder[i], n)
              THEN Min(C32_Surplus(ModuleOrder[i]), C32_Needed(n)) ELSE 0])
    - SeqSum([i \in 1..Len(ModuleOrder) |->
              IF C32_Target(n, ModuleOrder[i])
              THEN Min(C32_Surplus(n), C32_Needed(ModuleOrder[i])) ELSE 0])

\* C32: negotiate_resources is a single greedy pass: each surplus donor makes
\* at most one transfer, to the first deficit module in encounter order for
\* which min(donor surplus, recipient deficit) exceeds 10, of exactly that
\* amount; a donor with no such recipient transfers nothing.
C32_SingleGreedyPass ==
    last.op = "negotiate" =>
        \A n \in Names :
            modules[n].budget_remaining - last.before[n].budget_remaining = C32_Net(n)

C32_Witness ==
    /\ last.op = "negotiate"
    /\ \E d \in Names, r \in Names, q \in Names :
          /\ d # r /\ r # q
          /\ C32_Target(d, r)
          /\ C32_Qualifies(d, q)
          /\ modules[r].budget_remaining > last.before[r].budget_remaining

\* C33: in one negotiate_resources pass no deficit module receives in total
\* more than its needed amount (0.2 x initial_budget less its remaining at the
\* start of the pass), and no module transfers to itself.
C33_NoOverfunding ==
    last.op = "negotiate" =>
        /\ \A n \in Names :
              (C32_IsDeficit(n) /\ \A r \in Names : ~C32_Target(n, r)) =>
                  modules[n].budget_remaining - last.before[n].budget_remaining
                      <= C32_Needed(n)
        /\ \A d \in Names : ~C32_Target(d, d)

\* sum of remaining over the ledgers ms
C34_Total(ms) == SeqSum([i \in 1..Len(ModuleOrder) |-> ms[ModuleOrder[i]].budget_remaining])

\* C34: negotiate_resources conserves budget: the sum of remaining over all
\* ledgers is the same after the pass as before it, and usage,
\* violation_history and global_pool are unchanged.
C34_NegotiateConserves ==
    [][(last'.op = "negotiate" /\ ops' = ops + 1) =>
          /\ C34_Total(modules') = C34_Total(modules)
          /\ \A n \in Names :
                /\ modules'[n].usage = modules[n].usage
                /\ modules'[n].violation_history = modules[n].violation_history
                /\ modules'[n].initial_budget = modules[n].initial_budget
                /\ modules'[n].penalty_rate = modules[n].penalty_rate
          /\ global_pool' = global_pool
          /\ usage_history' = usage_history]_vars

C34_Witness ==
    /\ last.op = "negotiate"
    /\ Cardinality({n \in Names :
                      modules[n].budget_remaining < last.before[n].budget_remaining}) >= 2
    /\ \E n \in Names : modules[n].usage > 0

\* what the pool can support for n given the other modules' current holdings
C35_Available(n) ==
    Max(0, global_pool
           - SeqSum([i \in 1..Len(ModuleOrder) |->
                       IF ModuleOrder[i] # n
                       THEN modules[ModuleOrder[i]].budget_remaining ELSE 0]))

\* C35: every value find_nash_equilibrium returns for a module is at most
\* max(0, global_pool minus the sum of the other modules' remaining).
C35_WithinAvailable ==
    last.op = "find" => \A n \in Names : last.result[n] <= C35_Available(n)

\* C36: in every allocator state reachable by request, allocate_cycle,
\* negotiate_resources and end_cycle, the values find_nash_equilibrium returns
\* sum to at most global_pool.
C36_EquilibriumWithinPool ==
    last.op = "find" =>
        SeqSum([i \in 1..Len(ModuleOrder) |-> last.result[ModuleOrder[i]]]) <= global_pool

--------------------------------------------------------------------------
(* The usage history and check_sla *)

\* the last HistoryMaxLen values of h
C37_MostRecent(h) ==
    IF Len(h) > HistoryMaxLen THEN SubSeq(h, Len(h) - HistoryMaxLen + 1, Len(h)) ELSE h

\* C37: end_cycle appends each module's usage of the ending cycle exactly
\* once, before that usage is reset to 0; each module's history holds at most
\* 10 values, namely the most recent cycle usages in order.
C37_UsageHistory ==
    [][(last'.op = "end_cycle" /\ ops' = ops + 1) =>
          \A n \in Names :
             /\ usage_history'[n] = C37_MostRecent(Append(usage_history[n], modules[n].usage))
             /\ Len(usage_history'[n]) <= HistoryMaxLen
             /\ modules'[n].usage = 0]_vars

C37_Witness ==
    /\ last.op = "end_cycle"
    /\ ops = HistoryMaxLen + 2
    /\ Len(usage_history["decoder"]) = HistoryMaxLen
    /\ usage_history["decoder"][1] = RequestAmount["decoder"]
    /\ usage_history["decoder"][2] = 0

\* the overshoot ratio of the recorded check_sla call, in thousandths
C38_Overshoot ==
    ((last.latency - last.before[last.module].sla_ms) * RatioScale)
        \div Max(1, last.before[last.module].sla_ms)

\* penalty_rate x initial_budget x min(1, overshoot ratio)
C38_Penalty ==
    (((last.before[last.module].penalty_rate * last.before[last.module].initial_budget)
         \div RatioScale) * Min(RatioScale, C38_Overshoot)) \div RatioScale

\* C38: check_sla(module, latency): if latency <= sla_ms the ledger is
\* unchanged; otherwise exactly one overshoot ratio is appended to
\* violation_history and remaining becomes max(0, remaining - penalty_rate x
\* initial_budget x min(1, overshoot ratio)); usage and every other module's
\* ledger are unchanged in both cases.
C38_CheckSlaFrame ==
    last.op = "check_sla" =>
        LET b == last.before[last.module]
            a == modules[last.module]
        IN /\ \A n \in Names \ {last.module} : modules[n] = last.before[n]
           /\ a.usage = b.usage
           /\ a.initial_budget = b.initial_budget /\ a.sla_ms = b.sla_ms
           /\ a.penalty_rate = b.penalty_rate
           /\ last.latency <= b.sla_ms => a = b
           /\ last.latency > b.sla_ms =>
                 /\ a.violation_history = Append(b.violation_history, C38_Overshoot)
                 /\ a.budget_remaining = Max(0, b.budget_remaining - C38_Penalty)

C38_Witness ==
    /\ last.op = "check_sla" /\ prev.op = "check_sla"
    /\ last.module = "decoder"
    /\ last.latency > last.before["decoder"].sla_ms
    /\ C38_Overshoot > RatioScale
    /\ last.before["decoder"].usage > 0
    /\ modules["decoder"].budget_remaining > 0
    /\ prev.module = "planner"
    /\ prev.latency <= modules["planner"].sla_ms
    /\ modules["planner"].violation_history = <<>>

--------------------------------------------------------------------------
(* The policy version tag *)

\* tag a is strictly newer than tag b: both are "v<seconds>" and a's is later
C39_Newer(a, b) == Len(a) = 2 /\ Len(b) = 2 /\ a[1] = "v" /\ b[1] = "v" /\ a[2] > b[2]

\* C39: every train invocation that runs advances the policy version tag: the
\* tag after the call is strictly newer than the tag in effect before it, a
\* tag loaded from an artifact at construction included (stated here for the
\* planners whose tag was loaded from a valid artifact).
C39_VersionAdvances ==
    [][\A i \in 1..2 :
          (/\ twin.stage = "run" /\ twin'.stage = "run"
           /\ twin.p[i].boot = "valid"
           /\ twin.p[i].trained = "no" /\ twin'.p[i].trained = "ran") =>
              C39_Newer(twin'.p[i].version, twin.p[i].version)]_vars

--------------------------------------------------------------------------
(* Concurrent process_action coroutines *)

\* the requests of ledger n granted to coroutine k so far
C40_GrantsTo(k, n) ==
    {i \in 1..Len(call[k].log) :
        /\ call[k].log[i].ev = "request"
        /\ call[k].log[i].module = n
        /\ call[k].log[i].ok}

RECURSIVE C40_GrantedUpTo(_, _)
\* the amount ledger n granted to coroutines 1..k
C40_GrantedUpTo(k, n) ==
    IF k = 0 THEN 0
    ELSE C40_GrantedUpTo(k - 1, n) + RequestAmount[n] * Cardinality(C40_GrantsTo(k, n))

\* C40: whatever the order in which the process_action coroutines are resumed
\* at their awaits, no ledger's remaining is negative and the amounts a ledger
\* granted add up to no more than the budget it held
C40_RequestsAtomic ==
    \A n \in Names :
        /\ modules[n].budget_remaining >= 0
        /\ C40_GrantedUpTo(MaxTasks, n) <= modules[n].initial_budget

\* one coroutine sleeps in perform holding its planner grant while another,
\* run in between, was denied by the planner ledger
C40_Witness ==
    \E j, k \in Tasks :
        /\ j # k
        /\ call[j].pc = "performing"
        /\ C40_GrantsTo(j, "planner") # {}
        /\ \E i \in 1..Len(call[k].log) :
              call[k].log[i] = Ev("request", "planner", FALSE)

====
